---- MODULE Spec2Model ----
(***************************************************************************)
(* Verification model of the sequential PPP estimators of ROCKET:          *)
(*   src/lib/deprecate/SolverUpdNL.cpp   (SolverUpdNL)                     *)
(*   src/lib/deprecate/SolverPPPUC.cpp   (SolverPPPUC)                     *)
(*                                                                         *)
(* One solver object is modelled; `solver' says which class it is.  One    *)
(* call of Process is the sequence preCompute, TimeUpdate,                 *)
(* (AmbiguityConstr,) MeasUpdate, postCompute; `pc' is the position in     *)
(* that sequence, "idle" between two calls.                                *)
(*                                                                         *)
(* Numbers.  The code computes in double; the model computes in integers.  *)
(* Literals of the code that are no integers or exceed 32 bits are         *)
(* replaced by small integer stand-ins (each definition names the literal  *)
(* it stands for).  Sums, products, copies, indices and sizes are computed *)
(* as the code computes them.  The two inversions of MeasUpdate are not    *)
(* computed: inverseChol fails when its argument has a non-positive        *)
(* diagonal entry (certainly not positive definite) or when the epoch's    *)
(* data is ill-conditioned (an input), and the posterior it yields is a    *)
(* symmetric matrix of fresh values, distinct per epoch and per entry.     *)
(*                                                                         *)
(* Vectors are functions on 0..n-1, matrices records [r, c, e] with e a    *)
(* function on 0..r-1 of rows on 0..c-1: indices are the code's indices.   *)
(***************************************************************************)
EXTENDS Integers, Sequences, FiniteSets, TLC

\* ------------------------------------------------------------------ bounds
MaxSat == 5
MaxEpoch == 3

\* ------------------------------------------------------- program constants
\* SolverPPPUC.cpp:250  if( numCurrentSV < 4 )
MinSV == 4
\* SolverPPPUC.cpp:636/643  0.25 (tropo, coordinates); stand-in
VarTropo1st == 25
\* SolverPPPUC.cpp:646/650  9.0e10 (clock); stand-in
VarClock1st == 90
\* SolverPPPUC.cpp:656  2500 (ionosphere)
VarIono1st == 2500
\* SolverPPPUC.cpp:662  4.0e14 (ambiguities); stand-in
VarAmb1st == 4000
\* Variable.hpp:79  double variance = 1.0e10 (Variable(type) default); stand-in
VariableDefaultVariance == 1000
\* SolverPPPUC.cpp:69  initialTropVar(1.0E+9), in units of 1.0E+9
initialTropVar == 1
\* SolverPPPUC.cpp:69  initialIonoVar(1.0E+9), in units of 1.0E+9
initialIonoVar == 1
\* SolverPPPUC.cpp:375  11.111111 (code weight); stand-in
WeightCode == 11
\* SolverPPPUC.cpp:379  111111.11 (phase weight); stand-in
WeightPhase == 111
\* SolverPPPUC.cpp:472  1.646944444 (ionosphere coefficient on P2/L2); stand-in
CoefIonoF2 == 2
\* SolverPPPUC.cpp:489  +0.190293672798 (L1 wavelength); stand-in
CoefBL1 == 3
\* SolverPPPUC.cpp:491  +0.244210213425 (L2 wavelength); stand-in
CoefBL2 == 4
\* SolverUpdNL.cpp:598  1.0E+14 (weight of a fixed ambiguity); stand-in
WeightFix == 100000
\* SolverPPPUC::classIndex and SolverUpdNL::classIndex
classIndexUC == 9300000
classIndexNL == 9510000

Sats == 1..MaxSat

\* ----------------------------------------------------------------- helpers
Min(a, b) == IF a < b THEN a ELSE b
Max(a, b) == IF a < b THEN b ELSE a

RECURSIVE SumOver(_, _)
\* The sum of f[k] over the k in S
SumOver(f, S) ==
  IF S = {} THEN 0
  ELSE LET k == CHOOSE x \in S : TRUE IN f[k] + SumOver(f, S \ {k})

\* TLC evaluates a function constructor anew at every application of the
\* function; Eval(f) is f, evaluated once.
Eval(f) == IF f = f THEN f ELSE f

\* Vector<double>(n, val)
NewVector(n, val) == [i \in 0..(n - 1) |-> val]
VSize(v) == Cardinality(DOMAIN v)
EmptyVector == NewVector(0, 0)

\* Matrix<double>(r, c, val)
NewMatrix(r, c, val) == [r |-> r, c |-> c, e |-> [i \in 0..(r - 1) |-> [j \in 0..(c - 1) |-> val]]]
EmptyMatrix == NewMatrix(0, 0, 0)
isSquare(M) == M.r = M.c
InRange(M, i, j) == i \in 0..(M.r - 1) /\ j \in 0..(M.c - 1)

\* transpose(M)
transpose(M) ==
  [r |-> M.c, c |-> M.r, e |-> Eval([i \in 0..(M.c - 1) |-> [j \in 0..(M.r - 1) |-> M.e[j][i]]])]

\* A * B (defined when A.c = B.r).  Each entry is the sum over k of
\* A(i,k) * B(k,j); the products that are 0 are left out of the sum.
MatMul(A, B) ==
  LET nz == Eval([i \in 0..(A.r - 1) |-> {k \in 0..(A.c - 1) : A.e[i][k] # 0}])
  IN [r |-> A.r, c |-> B.c,
      e |-> Eval([i \in 0..(A.r - 1) |-> [j \in 0..(B.c - 1) |->
               SumOver([k \in nz[i] |-> A.e[i][k] * B.e[k][j]],
                       {k \in nz[i] : B.e[k][j] # 0})]])]

\* A + B (same shape)
MatAdd(A, B) ==
  [r |-> A.r, c |-> A.c,
   e |-> [i \in 0..(A.r - 1) |-> [j \in 0..(A.c - 1) |-> A.e[i][j] + B.e[i][j]]]]

\* M * v (defined when M.c = size of v), summed likewise
MatVec(M, v) ==
  [i \in 0..(M.r - 1) |->
     SumOver([k \in 0..(M.c - 1) |-> M.e[i][k] * v[k]],
             {k \in 0..(M.c - 1) : M.e[i][k] # 0 /\ v[k] # 0})]

\* a - b (same size)
VecSub(a, b) == [i \in DOMAIN a |-> a[i] - b[i]]

IsSymmetric(M) ==
  isSquare(M) /\ \A i \in 0..(M.r - 1) : \A j \in 0..(M.c - 1) : M.e[i][j] = M.e[j][i]

SetMax(S) == CHOOSE k \in S : \A l \in S : l <= k

\* A sequence of element writes applied in program order, w = <<i, j, val>>:
\* every element holds the value of the last write to it.  A write outside
\* the storage is dropped here; the places where the code can write
\* outside are modelled where they occur.
ApplyWrites(M, ws) ==
  LET w == Eval(ws)
      byRow == Eval([i \in 0..(M.r - 1) |-> {k \in DOMAIN w : w[k][1] = i}])
      last(i, j) == LET hits == {k \in byRow[i] : w[k][2] = j}
                    IN IF hits = {} THEN 0 ELSE SetMax(hits)
  IN [M EXCEPT !.e = [i \in 0..(M.r - 1) |-> [j \in 0..(M.c - 1) |->
                        IF last(i, j) = 0 THEN M.e[i][j] ELSE w[last(i, j)][3]]]]

\* the same for a vector: w = <<i, val>>
ApplyVWrites(v, ws) ==
  LET w == Eval(ws)
      last(i) == LET hits == {k \in DOMAIN w : w[k][1] = i}
                 IN IF hits = {} THEN 0 ELSE SetMax(hits)
  IN [i \in DOMAIN v |-> IF last(i) = 0 THEN v[i] ELSE w[last(i)][2]]

RECURSIVE Concat(_)
\* concatenation of a sequence of sequences
Concat(ss) == IF ss = <<>> THEN <<>> ELSE Head(ss) \o Concat(Tail(ss))

\* Touch, were a read of the map to reset the values it holds
Touch_reset(m, keys) == [k \in (DOMAIN m) \cup keys |-> 0]

\* std::map<K, double>::operator[] : the value, 0.0 when the key is new
Get(m, k) == IF k \in DOMAIN m THEN m[k] ELSE 0
\* ... and the keys it inserts with value 0.0
Touch(m, keys) == [k \in (DOMAIN m) \cup keys |-> IF k \in DOMAIN m THEN m[k] ELSE 0]
EmptyMap == [k \in {} |-> 0]

\* --------------------------------------------------------------- Variables
\* Order of the TypeIDs the model uses.  SolverPPPUC::setNEU relies on it:
\* wetMap first, the coordinates (dx, dy, dz or dLat, dLon, dH), cdt last;
\* ionoL1, BL1, BL2.
TypeRank(t) ==
  CASE t = "wetMap" -> 1 [] t = "dx" -> 2 [] t = "dy" -> 3 [] t = "dz" -> 4
    [] t = "dLat" -> 5 [] t = "dLon" -> 6 [] t = "dH" -> 7
    [] t = "cdt" -> 8 [] t = "ionoL1" -> 9 [] t = "BL1" -> 10 [] t = "BL2" -> 11

\* Variable::noSats (the satellite of a source-indexed Variable)
noSats == 0

\* A Variable is its identity [type, sat]; one source only.
Variable(t, s) == [type |-> t, sat |-> s]

\* Variable::operator< : the type first, then the satellite
VarLess(a, b) ==
  \/ TypeRank(a.type) < TypeRank(b.type)
  \/ TypeRank(a.type) = TypeRank(b.type) /\ a.sat < b.sat

RECURSIVE InOrder(_)
\* The elements of a VariableSet in iteration order (a sequence, 1-based;
\* the code's index of the k-th element is k - 1).
InOrder(S) ==
  IF S = {} THEN <<>>
  ELSE LET m == CHOOSE x \in S : \A y \in S \ {x} : VarLess(x, y)
       IN <<m>> \o InOrder(S \ {m})

RECURSIVE SatOrder(_)
\* The elements of a SatIDSet in iteration order
SatOrder(S) ==
  IF S = {} THEN <<>>
  ELSE LET m == CHOOSE x \in S : \A y \in S : x <= y
       IN <<m>> \o SatOrder(S \ {m})

RECURSIVE TypeOrder(_)
\* The elements of a TypeIDSet in iteration order
TypeOrder(S) ==
  IF S = {} THEN <<>>
  ELSE LET m == CHOOSE x \in S : \A y \in S : TypeRank(x) <= TypeRank(y)
       IN <<m>> \o TypeOrder(S \ {m})

\* Variable::getInitialVariance.  SolverPPPUC builds its Variables with
\* Variable(type), which leaves the constructor's default variance;
\* SolverUpdNL's Variables come from the equation system with the same
\* default.
getInitialVariance(v) == VariableDefaultVariance

\* StochasticModel::getPhi / getQ after Prepare, by the kind of model that
\* SolverPPPUC::Init points to: random walk (troposphere, ionosphere),
\* constant (coordinates, ambiguities), white noise (clock).
getPhi(t) == IF t = "cdt" THEN 0 ELSE 1
getQ(t) ==
  CASE t = "wetMap" -> 3 [] t = "cdt" -> 900 [] t = "ionoL1" -> 5 [] OTHER -> 0

\* ------------------------------------------------------------- epoch data
\* The gnssRinex / gnssDataMap handed to Process.  sats: the satellites of
\* the epoch; top: the satellite with the highest elevation, 0 when no
\* satellite has an elevation above 0; hasWeights: TypeID::weight present
\* for every satellite; cond: conditioning of the data ("ok", or the
\* inversion that breaks down); fix: whether the resolver fixes
\* ambiguities (SolverUpdNL).  What the build makes of undefined behaviour:
\* ub = "check" when element access is range-checked (an access outside a
\* Vector or Matrix throws), "raw" when it is not (the access reads junk);
\* gimax: the content of the uninitialised local imax; junk: the value read.
elevation(g, s) == IF g.top = 0 THEN 0 ELSE IF s = g.top THEN 2 ELSE 1

\* gData.getVectorOfTypeID(type): one value per satellite, in SatID order
getVectorOfTypeID(g, t) ==
  LET so == SatOrder(g.sats)
      base == CASE t = "prefitC" -> 10 [] t = "prefitP2" -> 20 [] t = "prefitL1" -> 30
                [] t = "prefitL2" -> 40 [] t = "ionoL1" -> 50 [] t = "weight" -> 1
  IN [i \in 0..(Len(so) - 1) |->
        IF t = "elevation" THEN elevation(g, so[i + 1]) ELSE base + so[i + 1]]

\* gData.header.source.zwdMap[TypeID::wetMap]: a value of the epoch
zwdOf(g) == 60 + Cardinality(g.sats)

\* gData.body.getMatrixOfTypes(srcIndexedTypes): row i = satellite i,
\* column j = j-th core type
getMatrixOfTypes(g, types) ==
  LET so == SatOrder(g.sats)
      n == Len(so)
      k == Cardinality(types)
  IN [r |-> n, c |-> k,
      e |-> [i \in 0..(n - 1) |-> [j \in 0..(k - 1) |-> 10 * (j + 1) + so[i + 1]]]]

NoData ==
  [sats |-> {}, top |-> 0, hasWeights |-> FALSE, cond |-> "ok", fix |-> FALSE,
   ub |-> "raw", gimax |-> 0, junk |-> 0]

\* ----------------------------------------------------------------- state
VARIABLES
  solver,          \* "UpdNL" or "PPPUC": the class of the object
  fixCoordinate,   \* SolverPPPUC::fixCoordinate
  srcIndexedTypes, \* SolverPPPUC::srcIndexedTypes
  satIndexedTypes, \* SolverPPPUC::satIndexedTypes
  firstTime, valid,
  currSatSet, varUnknowns, numCurrentSV, numMeas, numVar, numUnknowns,
  measVector, hMatrix, rMatrix, phiMatrix, qMatrix,
  xhat, P, xhatminus, Pminus, solution, covMatrix, postfitResiduals,
  stateMap, covarianceMap,
  stateMapminus, covMapminus, ambFixedMap,
  fixingDataMap,   \* SolverUpdNL::fixingDataMap
  imax,            \* the local imax of SolverPPPUC::preCompute
  gData,           \* the data of the epoch being (or last) processed
  pc,              \* position inside Process
  outcome,         \* how the last Process call ended
  epoch,           \* number of Process calls started
  good,            \* history: unknowns and posterior of the last epoch
                   \* whose Process returned normally, with the epoch number,
                   \* and (past) the unknowns of the epochs that returned
                   \* normally before it
  useSatArcs,      \* PhaseCodeAlignment::useSatArcs
  phaseWavelength, \* PhaseCodeAlignment::phaseWavelength
  m_svData,        \* PhaseCodeAlignment::m_svData
  satDataIn,       \* the satTypeValueMap handed to PhaseCodeAlignment::Process
  satData,         \* the same object when Process has ended
  alignOutcome,    \* how the last PhaseCodeAlignment::Process ended
  alignEpoch,      \* number of calls of PhaseCodeAlignment::Process
  m_svDataMap,     \* PhaseCodeAlignment::m_svDataMap: m_svData per source
  srcDataIn,       \* the sourceDataMap handed to Process(gnssDataMap)
  srcData,         \* the same object when Process(gnssDataMap) has ended
  variable,        \* a Variable object: its data members
  varStore,        \* a VariableSet (std::set<Variable>)
  varOp,           \* the member function of `variable' called last
  varCalls         \* number of calls made on `variable' and varStore

solverVars == <<solver, fixCoordinate, srcIndexedTypes, satIndexedTypes>>
asmVars == <<currSatSet, varUnknowns, numCurrentSV, numMeas, numVar, numUnknowns,
             measVector, hMatrix, rMatrix, phiMatrix, qMatrix, imax>>
filterVars == <<xhat, P, xhatminus, Pminus, solution, covMatrix, postfitResiduals, valid>>
carryVars == <<stateMap, covarianceMap>>
ambVars == <<stateMapminus, covMapminus, ambFixedMap, fixingDataMap>>
alignVars == <<useSatArcs, phaseWavelength, m_svData, satDataIn, satData, alignOutcome, alignEpoch,
               m_svDataMap, srcDataIn, srcData>>
kalmanVars == <<solverVars, firstTime, asmVars, filterVars, carryVars, ambVars,
                gData, pc, outcome, epoch, good>>
variableVars == <<variable, varStore, varOp, varCalls>>
\* The objects beside the solver
otherVars == <<alignVars, variableVars>>
vars == <<kalmanVars, otherVars>>

\* SolverPPPUC::setNEU (with the constructor's fixCoordinate)
setNEU_src(fixPos) ==
  {"wetMap"} \cup (IF ~fixPos THEN {"dx", "dy", "dz"} ELSE {}) \cup {"cdt"}
setNEU_sat == {"ionoL1", "BL1", "BL2"}

\* getClassName() and getIndex(): the name of the class and the index the
\* object got from classIndex when it was constructed (setIndex(), line 76)
getClassName == IF solver = "PPPUC" THEN "SolverPPPUC" ELSE "SolverUpdNL"
getIndex == IF solver = "PPPUC" THEN classIndexUC ELSE classIndexNL

\* An error that carries no context of a solver
NoContext == [name |-> "", index |-> 0]

NoGood == [ep |-> 0, unk |-> {}, sol |-> EmptyVector, cov |-> EmptyMatrix, past |-> {}]

\* The state of a solver after construction.  Members the constructors do
\* not set (sizes, matrices) are empty / 0; none is read before it is
\* assigned.
SolverConstructed ==
  /\ solver \in {"UpdNL", "PPPUC"}
  /\ fixCoordinate \in (IF solver = "PPPUC" THEN BOOLEAN ELSE {FALSE})
  /\ srcIndexedTypes = (IF solver = "PPPUC" THEN setNEU_src(fixCoordinate) ELSE {})
  /\ satIndexedTypes = (IF solver = "PPPUC" THEN setNEU_sat ELSE {})
  /\ firstTime = TRUE
  /\ valid = FALSE
  /\ currSatSet = {} /\ varUnknowns = {}
  /\ numCurrentSV = 0 /\ numMeas = 0 /\ numVar = 0 /\ numUnknowns = 0
  /\ measVector = EmptyVector /\ hMatrix = EmptyMatrix /\ rMatrix = EmptyMatrix
  /\ phiMatrix = EmptyMatrix /\ qMatrix = EmptyMatrix
  /\ xhat = EmptyVector /\ P = EmptyMatrix
  /\ xhatminus = EmptyVector /\ Pminus = EmptyMatrix
  /\ solution = EmptyVector /\ covMatrix = EmptyMatrix
  /\ postfitResiduals = EmptyVector
  /\ stateMap = EmptyMap /\ covarianceMap = EmptyMap
  /\ stateMapminus = EmptyMap /\ covMapminus = EmptyMap /\ ambFixedMap = EmptyMap
  /\ fixingDataMap = EmptyMap
  /\ imax = 0
  /\ gData = NoData
  /\ pc = "idle"
  /\ outcome = [type |-> "none", msg |-> "", ctx |-> NoContext]
  /\ epoch = 0
  /\ good = NoGood

\* Variable::allSources (the source of a Variable of all sources)
allSources == 0

\* Variable( type ): the data members after the common constructor with its
\* default arguments
NewVariable(t) ==
  [varType |-> t, pVarModel |-> "defaultModel",
   isSourceIndexed |-> TRUE, isSatIndexed |-> FALSE, isTypeIndexed |-> TRUE,
   initialVariance |-> VariableDefaultVariance, defaultCoefficient |-> 1,
   forceDefault |-> FALSE, varSource |-> allSources, varSat |-> noSats,
   m_now_index |-> -1, m_pre_index |-> -1]

\* A Variable object after construction, and an empty VariableSet
VariableConstructed(t) ==
  /\ variable = NewVariable(t)
  /\ varStore = {}
  /\ varOp = "Variable"
  /\ varCalls = 0

\* The LC wavelength, as a whole number of units
LCWavelength == 3

\* PhaseCodeAlignment::setPhaseWavelength: the wavelength asked for when
\* it is above zero, else the LC wavelength
setPhaseWavelength(wavelength) ==
  IF wavelength > 0 THEN wavelength ELSE LCWavelength

\* A PhaseCodeAlignment object after construction: no satellite known
AlignConstructed ==
  /\ m_svData = EmptyMap
  /\ satDataIn = EmptyMap /\ satData = EmptyMap
  /\ alignOutcome = "none"
  /\ alignEpoch = 0
  /\ m_svDataMap = EmptyMap
  /\ srcDataIn = EmptyMap /\ srcData = EmptyMap

\* The state after construction
Init ==
  SolverConstructed /\ AlignConstructed /\ phaseWavelength = setPhaseWavelength(0) /\ useSatArcs = TRUE /\ VariableConstructed("dx")

\* UC_varUnknowns, were varUnknowns not cleared before it is rebuilt
UC_varUnknowns_stale(types, sats) ==
  {Variable(t, s) : t \in types, s \in sats \cup currSatSet}

\* ------------------------------------------- SolverPPPUC::preCompute, parts
\* The Variables of the epoch: every satellite-indexed type for every
\* satellite (lines 221-244)
UC_varUnknowns(types, sats) == {Variable(t, s) : t \in types, s \in sats}

\* "Find max elevation and its index" (lines 312-322): the index the scan
\* leaves in imax, or -1 here when the scan never assigns it.
RECURSIVE ScanMaxElev(_, _, _, _, _)
ScanMaxElev(elev, n, i, maxElev, im) ==
  IF i >= n THEN im
  ELSE IF elev[i] > maxElev THEN ScanMaxElev(elev, n, i + 1, elev[i], i)
       ELSE ScanMaxElev(elev, n, i + 1, maxElev, im)

\* TRUE when the scan assigns imax
ImaxAssigned(g) == \E s \in g.sats : elevation(g, s) > 0

\* The value of imax after the scan: the scan's result or, when the scan
\* never assigns it, whatever the uninitialised local holds (g.gimax).
ImaxOf(g) ==
  IF ImaxAssigned(g)
  THEN ScanMaxElev(getVectorOfTypeID(g, "elevation"), Cardinality(g.sats), 0, 0, -1)
  ELSE g.gimax

\* The value of the counter c1 / count1 of the constraint loops when the
\* loop is at satellite index i: the number of j < i with j # im.
C1At(i, im) == i - (IF 0 <= im /\ im < i THEN 1 ELSE 0)

\* initialIono(imax) (line 324); an index outside the vector reads junk
IonoBase(g, im) ==
  LET initialIono == getVectorOfTypeID(g, "ionoL1")
  IN IF im \in DOMAIN initialIono THEN initialIono[im] ELSE g.junk

\* The writes to measVector in program order, <<index, value, block>>
\* (lines 289-295, 328-339, 353)
measVectorWrites(g, im) ==
  LET n == Cardinality(g.sats)
      prefitC == getVectorOfTypeID(g, "prefitC")
      prefitP2 == getVectorOfTypeID(g, "prefitP2")
      prefitL1 == getVectorOfTypeID(g, "prefitL1")
      prefitL2 == getVectorOfTypeID(g, "prefitL2")
      initialIono == getVectorOfTypeID(g, "ionoL1")
      ionoBase == IonoBase(g, im)
  IN Concat([k \in 1..n |->
       LET i == k - 1
       IN << <<i, prefitC[i], "meas">>, <<i + n, prefitP2[i], "meas">>,
             <<i + 2 * n, prefitL1[i], "meas">>, <<i + 3 * n, prefitL2[i], "meas">> >>])
     \o Concat([k \in 1..n |->
       LET i == k - 1
       IN IF i # im THEN << <<C1At(i, im) + 4 * n, initialIono[i] - ionoBase, "iono">> >>
          ELSE <<>>])
     \o << <<5 * n - 1, zwdOf(g), "trop">> >>

\* The writes to rMatrix (lines 359-439): <<row, column, value, block>>
rMatrixWrites(g, im) ==
  LET n == Cardinality(g.sats)
      wVec == getVectorOfTypeID(g, "weight")
      w(i) == IF g.hasWeights THEN wVec[i] ELSE 1
  IN Concat([k \in 1..n |->
       LET i == k - 1
       IN << <<i, i, WeightCode * w(i), "meas">>,
             <<i + n, i + n, WeightCode * w(i), "meas">>,
             <<i + 2 * n, i + 2 * n, WeightPhase * w(i), "meas">>,
             <<i + 3 * n, i + 3 * n, WeightPhase * w(i), "meas">> >>])
     \o Concat([k \in 1..n |->
       LET i == k - 1
           c1 == C1At(i, im)
       IN IF i # im
          THEN << <<c1 + 4 * n, c1 + 4 * n,
                    IF g.hasWeights THEN (1 \div initialIonoVar) * wVec[i]
                    ELSE 1 \div initialIonoVar, "iono">> >>
          ELSE <<>>])
     \o << <<5 * n - 1, 5 * n - 1, 1 \div initialTropVar, "trop">> >>

\* The writes to hMatrix (lines 444-517)
\* hMatrixWrites, were the BL2 coefficient written into the BL1 column
hMatrixWrites_bl2(g, im, nVar, types) ==
  LET n == Cardinality(g.sats)
      dMatrix == getMatrixOfTypes(g, types)
      d(i, j) == IF InRange(dMatrix, i, j) THEN dMatrix.e[i][j] ELSE g.junk
  IN Concat([k \in 1..n |->
       LET i == k - 1
       IN Concat([l \in 1..nVar |->
            LET j == l - 1
            IN << <<i, j, d(i, j), "meas">>, <<i + n, j, d(i, j), "meas">>,
                  <<i + 2 * n, j, d(i, j), "meas">>, <<i + 3 * n, j, d(i, j), "meas">> >>])])
     \o Concat([k \in 1..n |->
       LET count1 == k - 1
       IN << <<count1, nVar + count1, 1, "meas">>,
             <<count1 + n, nVar + count1, CoefIonoF2, "meas">>,
             <<count1 + 2 * n, nVar + count1, -1, "meas">>,
             <<count1 + 3 * n, nVar + count1, -CoefIonoF2, "meas">> >>])
     \o Concat([k \in 1..n |->
       LET count1 == k - 1
       IN << <<count1 + 2 * n, nVar + n + count1, CoefBL1, "meas">>,
             <<count1 + 3 * n, nVar + n + count1, CoefBL2, "meas">> >>])
     \o Concat([k \in 1..n |->
       LET i == k - 1
           count1 == C1At(i, im)
       IN IF i # im
          THEN << <<count1 + 4 * n, nVar + i, 1, "iono">>,
                  <<count1 + 4 * n, nVar + im, -1, "iono">> >>
          ELSE <<>>])
     \o << <<5 * n - 1, 0, 1, "trop">> >>

hMatrixWrites(g, im, nVar, types) ==
  LET n == Cardinality(g.sats)
      dMatrix == getMatrixOfTypes(g, types)
      d(i, j) == IF InRange(dMatrix, i, j) THEN dMatrix.e[i][j] ELSE g.junk
  IN Concat([k \in 1..n |->
       LET i == k - 1
       IN Concat([l \in 1..nVar |->
            LET j == l - 1
            IN << <<i, j, d(i, j), "meas">>, <<i + n, j, d(i, j), "meas">>,
                  <<i + 2 * n, j, d(i, j), "meas">>, <<i + 3 * n, j, d(i, j), "meas">> >>])])
     \o Concat([k \in 1..n |->
       LET count1 == k - 1
       IN << <<count1, nVar + count1, 1, "meas">>,
             <<count1 + n, nVar + count1, CoefIonoF2, "meas">>,
             <<count1 + 2 * n, nVar + count1, -1, "meas">>,
             <<count1 + 3 * n, nVar + count1, -CoefIonoF2, "meas">> >>])
     \o Concat([k \in 1..n |->
       LET count1 == k - 1
       IN << <<count1 + 2 * n, nVar + n + count1, CoefBL1, "meas">>,
             <<count1 + 3 * n, nVar + 2 * n + count1, CoefBL2, "meas">> >>])
     \o Concat([k \in 1..n |->
       LET i == k - 1
           count1 == C1At(i, im)
       IN IF i # im
          THEN << <<count1 + 4 * n, nVar + i, 1, "iono">>,
                  <<count1 + 4 * n, nVar + im, -1, "iono">> >>
          ELSE <<>>])
     \o << <<5 * n - 1, 0, 1, "trop">> >>

\* phiQWrites, were the ionosphere and BL1 blocks filled in each other's place
phiQWrites_swapped(n, nVar, fixPos) ==
  << <<0, "wetMap">> >>
  \o (IF ~fixPos THEN << <<1, "dx">>, <<2, "dy">>, <<3, "dz">>, <<4, "cdt">> >>
      ELSE << <<1, "cdt">> >>)
  \o [k \in 1..n |-> <<nVar + (k - 1), "BL1">>]
  \o [k \in 1..n |-> <<nVar + n + (k - 1), "ionoL1">>]
  \o [k \in 1..n |-> <<nVar + 2 * n + (k - 1), "BL2">>]

\* The diagonal indices of phiMatrix / qMatrix with the type whose
\* stochastic model fills them, in program order (lines 532-621)
phiQWrites(n, nVar, fixPos) ==
  << <<0, "wetMap">> >>
  \o (IF ~fixPos THEN << <<1, "dx">>, <<2, "dy">>, <<3, "dz">>, <<4, "cdt">> >>
      ELSE << <<1, "cdt">> >>)
  \o [k \in 1..n |-> <<nVar + (k - 1), "ionoL1">>]
  \o [k \in 1..n |-> <<nVar + n + (k - 1), "BL1">>]
  \o [k \in 1..n |-> <<nVar + 2 * n + (k - 1), "BL2">>]

UC_phiMatrix(n, nVar, fixPos) ==
  LET ws == Eval(phiQWrites(n, nVar, fixPos))
  IN ApplyWrites(NewMatrix(nVar + 3 * n, nVar + 3 * n, 0),
                 [k \in DOMAIN ws |-> <<ws[k][1], ws[k][1], getPhi(ws[k][2])>>])

\* UC_qMatrix, were the noise of the troposphere and of the next core
\* unknown coupled
UC_qMatrix_coupled(n, nVar, fixPos) ==
  LET ws == Eval(phiQWrites(n, nVar, fixPos))
  IN ApplyWrites(NewMatrix(nVar + 3 * n, nVar + 3 * n, 0),
                 [k \in DOMAIN ws |-> <<ws[k][1], ws[k][1], getQ(ws[k][2])>>]
                 \o << <<0, 1, getQ("wetMap")>>, <<1, 0, getQ("wetMap")>> >>)

UC_qMatrix(n, nVar, fixPos) ==
  LET ws == Eval(phiQWrites(n, nVar, fixPos))
  IN ApplyWrites(NewMatrix(nVar + 3 * n, nVar + 3 * n, 0),
                 [k \in DOMAIN ws |-> <<ws[k][1], ws[k][1], getQ(ws[k][2])>>])

\* UC_initialErrorCovariance, were the clock at index 4 with fixed
\* coordinates too
UC_initialErrorCovariance_clock4(n, nVar, fixPos) ==
  ApplyWrites(NewMatrix(nVar + 3 * n, nVar + 3 * n, 0),
    << <<0, 0, VarTropo1st>> >>
    \o [k \in 1..n |-> <<nVar + (k - 1), nVar + (k - 1), VarIono1st>>]
    \o [k \in 1..(2 * n) |-> <<nVar + n + (k - 1), nVar + n + (k - 1), VarAmb1st>>]
    \o << <<1, 1, VarTropo1st>>, <<2, 2, VarTropo1st>>, <<3, 3, VarTropo1st>>,
          <<4, 4, VarClock1st>> >>)

\* initialErrorCovariance of the first epoch (lines 628-663)
UC_initialErrorCovariance(n, nVar, fixPos) ==
  ApplyWrites(NewMatrix(nVar + 3 * n, nVar + 3 * n, 0),
    << <<0, 0, VarTropo1st>> >>
    \o (IF ~fixPos
        THEN << <<1, 1, VarTropo1st>>, <<2, 2, VarTropo1st>>, <<3, 3, VarTropo1st>>,
                <<4, 4, VarClock1st>> >>
        ELSE << <<1, 1, VarClock1st>> >>)
    \o [k \in 1..n |-> <<nVar + (k - 1), nVar + (k - 1), VarIono1st>>]
    \o [k \in 1..(2 * n) |-> <<nVar + n + (k - 1), nVar + n + (k - 1), VarAmb1st>>])

\* The prior state of a later epoch (lines 677-705): the core entries from
\* `solution', the satellite-indexed ones from stateMap[]
UC_currentState(unk, nVar, g) ==
  [i \in 0..(nVar + Len(unk) - 1) |->
     IF i < nVar THEN (IF i \in DOMAIN solution THEN solution[i] ELSE g.junk)
     ELSE Get(stateMap, unk[i - nVar + 1])]

\* covarianceMap[ v ] of SolverPPPUC, empty when v is no key
UC_Row(m, v) == IF v \in DOMAIN m THEN m[v] ELSE [sat |-> EmptyMap, src |-> EmptyMap]

\* The prior covariance of a later epoch (lines 678-769).  Every entry is
\* written once: the core block from covMatrix, the diagonal from
\* covarianceMap or getInitialVariance, the upper triangle mirrored, the
\* core-by-satellite blocks from srcIndexedVarCov.
UC_currentErrorCov(unk, nVar, types, g) ==
  LET nU == nVar + Len(unk)
      tseq == TypeOrder(types)
      v(i) == unk[i - nVar + 1]
      core(i, j) == IF InRange(covMatrix, i, j) THEN covMatrix.e[i][j] ELSE g.junk
      cross(c1, c3) == IF c3 < Len(tseq)
                       THEN Get(UC_Row(covarianceMap, v(c1)).src, tseq[c3 + 1]) ELSE 0
  IN [r |-> nU, c |-> nU,
      e |-> [i \in 0..(nU - 1) |-> [j \in 0..(nU - 1) |->
           IF i < nVar /\ j < nVar THEN core(i, j)
           ELSE IF i >= nVar /\ j >= nVar
           THEN IF i = j
                THEN IF v(i) \in DOMAIN covarianceMap
                     THEN Get(covarianceMap[v(i)].sat, v(i))
                     ELSE getInitialVariance(v(i))
                ELSE Get(UC_Row(covarianceMap, v(Min(i, j))).sat, v(Max(i, j)))
           ELSE cross(Max(i, j), Min(i, j))]]]

\* The keys that the operator[] reads of lines 703-765 add to covarianceMap
UC_covarianceMapRead(unkSet, types) ==
  LET later(v) == {w \in unkSet : VarLess(v, w)}
      touched == {v \in unkSet : v \in DOMAIN covarianceMap \/ later(v) # {} \/ types # {}}
  IN [v \in (DOMAIN covarianceMap) \cup touched |->
        IF v \notin unkSet THEN covarianceMap[v]
        ELSE LET row == UC_Row(covarianceMap, v)
             IN [sat |-> Touch(row.sat, later(v) \cup
                                (IF v \in DOMAIN covarianceMap THEN {v} ELSE {})),
                 src |-> Touch(row.src, types)]]

\* How Process ends an epoch with an exception: its type as the caller of
\* Process sees it, and the text of the exception first thrown
Throw(type, msg) ==
  /\ pc' = "idle"
  /\ outcome' = [type |-> type, msg |-> msg,
                 ctx |-> IF type = "ProcessingException"
                         THEN [name |-> getClassName, index |-> getIndex]
                         ELSE NoContext]

\* An exception leaves a function whose exception specification does not
\* list it: std::unexpected() is called, which ends the program, and Process
\* never returns to its caller.
Terminate(msg) ==
  /\ pc' = "terminated"
  /\ outcome' = [type |-> "terminate", msg |-> msg, ctx |-> NoContext]

\* TooFewSV, were the test "<= 4"
TooFewSV_le(n) == n <= MinSV

\* The test of line 250
TooFewSV(n) == n < MinSV

\* ---------------------------------------------- SolverPPPUC::preCompute
UC_preCompute(g) ==
  LET n == Cardinality(g.sats)
      nVar == Cardinality(srcIndexedTypes)
      nU == nVar + 3 * n
      nMeas == 4 * n + (n - 1) + 1
      unkSet == UC_varUnknowns(satIndexedTypes, g.sats)
      unk == InOrder(unkSet)
      im == ImaxOf(g)
      \* line 324: initialIono(imax) outside the vector, range-checked
      throwIono == im \notin 0..(n - 1) /\ g.ub = "check"
      \* line 685: solution(i) outside the vector, range-checked
      throwCore == ~firstTime /\ VSize(solution) < nVar /\ g.ub = "check"
  IN
  /\ solver = "PPPUC" /\ pc = "idle"
  /\ epoch' = epoch + 1
  /\ gData' = g
  /\ currSatSet' = g.sats
  /\ varUnknowns' = unkSet
  /\ numCurrentSV' = n
  /\ UNCHANGED <<otherVars, solverVars, ambVars, xhatminus, Pminus, solution, covMatrix,
                 postfitResiduals, valid, good>>
  /\ IF TooFewSV(n)
     THEN /\ Throw("SVNumException", "Satellite number is less than 4")
          /\ UNCHANGED <<numMeas, numVar, numUnknowns, measVector, hMatrix, rMatrix,
                         phiMatrix, qMatrix, imax, xhat, P, firstTime, carryVars>>
     ELSE
     /\ numMeas' = nMeas /\ numVar' = nVar /\ numUnknowns' = nU
     /\ imax' = im
     /\ IF throwIono
        THEN /\ measVector' = ApplyVWrites(NewVector(nMeas, 0),
                                SelectSeq(measVectorWrites(g, im), LAMBDA w : w[3] = "meas"))
             /\ Throw("ProcessingException", "index out of range")
             /\ UNCHANGED <<hMatrix, rMatrix, phiMatrix, qMatrix, xhat, P, firstTime,
                            carryVars>>
        ELSE
        /\ measVector' = ApplyVWrites(NewVector(nMeas, 0), measVectorWrites(g, im))
        /\ rMatrix' = ApplyWrites(NewMatrix(nMeas, nMeas, 0), rMatrixWrites(g, im))
        /\ hMatrix' = ApplyWrites(NewMatrix(nMeas, nU, 0),
                                  hMatrixWrites(g, im, nVar, srcIndexedTypes))
        /\ phiMatrix' = UC_phiMatrix(n, nVar, fixCoordinate)
        /\ qMatrix' = UC_qMatrix(n, nVar, fixCoordinate)
        /\ IF firstTime
           THEN /\ xhat' = NewVector(nU, 0)
                /\ P' = UC_initialErrorCovariance(n, nVar, fixCoordinate)
                /\ firstTime' = FALSE
                /\ pc' = "TimeUpdate"
                /\ UNCHANGED <<carryVars, outcome>>
           ELSE IF throwCore
           THEN /\ Throw("ProcessingException", "index out of range")
                /\ UNCHANGED <<xhat, P, firstTime, carryVars>>
           ELSE /\ xhat' = UC_currentState(unk, nVar, g)
                /\ P' = UC_currentErrorCov(unk, nVar, srcIndexedTypes, g)
                /\ stateMap' = Touch(stateMap, unkSet)
                /\ covarianceMap' = UC_covarianceMapRead(unkSet, srcIndexedTypes)
                /\ pc' = "TimeUpdate"
                /\ UNCHANGED <<firstTime, outcome>>

\* ------------------------------------------------------------ TimeUpdate
\* The size checks of TimeUpdate (SolverPPPUC.cpp 843-879): the text of the
\* first check that throws, "" when none does.  nU is numUnknowns
\* (SolverUpdNL: of the equation system).
TimeUpdateRejects(phi, nU) ==
  IF ~isSquare(phi) THEN "phiMatrix is not square"
  ELSE IF VSize(xhat) # nU THEN "TimeUpdate(): Size of a posteriori state estimation vector do not match the number of unknowns"
  ELSE IF phi.r # nU THEN "Number of unknowns does not match dimension of phiMatrix"
  ELSE IF ~isSquare(qMatrix) THEN "qMatrix is not square"
  ELSE IF qMatrix.r # nU THEN "Number of unknowns does not match dimension of qMatrix"
  ELSE ""

\* Matrix * Vector, Matrix * Matrix and Matrix + Matrix throw on a size
\* mismatch; these say when the statements of lines 884 and 889 do.
PredictStateThrows(phi) == phi.c # VSize(xhat)
PredictCovThrows(phi, Q) == phi.c # P.r \/ P.c # phi.c \/ phi.r # Q.r \/ phi.r # Q.c

\* TimeUpdate( phiMatrix, qMatrix ), common to both solvers
TimeUpdate(phi, Q, nU) ==
  IF TimeUpdateRejects(phi, nU) # ""
  THEN /\ Throw("ProcessingException", TimeUpdateRejects(phi, nU))
       /\ UNCHANGED <<xhatminus, Pminus>>
  ELSE IF PredictStateThrows(phi)
  THEN /\ Throw("ProcessingException", "TimeUpdate(): Unable to predict next state.")
       /\ UNCHANGED <<xhatminus, Pminus>>
  ELSE /\ xhatminus' = MatVec(phi, xhat)
       /\ IF PredictCovThrows(phi, Q)
          THEN /\ Throw("ProcessingException", "TimeUpdate(): Unable to predict next state.")
               /\ UNCHANGED Pminus
          ELSE /\ Pminus' = MatAdd(MatMul(MatMul(phi, P), transpose(phi)), Q)
               /\ UNCHANGED outcome
               /\ pc' = (IF solver = "UpdNL" THEN "AmbiguityConstr" ELSE "MeasUpdate")

\* SolverPPPUC::Compute, first call
UC_TimeUpdate ==
  /\ solver = "PPPUC" /\ pc = "TimeUpdate"
  /\ TimeUpdate(phiMatrix, qMatrix, numUnknowns)
  /\ UNCHANGED <<otherVars, solverVars, firstTime, asmVars, carryVars, ambVars, gData, epoch, good,
                 xhat, P, solution, covMatrix, postfitResiduals, valid>>

\* ------------------------------------------------------------ MeasUpdate
\* The size checks of MeasUpdate (SolverPPPUC.cpp 918-960): the text of the
\* first check that throws, "" when none does
MeasUpdateRejects(prefit, H, W) ==
  IF ~isSquare(W) THEN "MeasUpdate(): Weight matrix is not square"
  ELSE IF W.r # VSize(prefit) THEN "MeasUpdate(): prefitResiduals size does not match dimension of weightMatrix"
  ELSE IF H.r # VSize(prefit) THEN "MeasUpdate(): prefitResiduals size does not match dimension of designMatrix"
  ELSE IF H.c # VSize(xhatminus) THEN "MeasUpdate(): designMatrix size and a priori state estimation vector do not match."
  ELSE IF Pminus.c # VSize(xhatminus) THEN "MeasUpdate(): Sizes of a priori error covariance matrix and a priori state estimation vector do not match."
  ELSE ""

\* inverseChol(Pminus) throws (line 969): Pminus is not square, or the
\* Cholesky factorisation meets a non-positive pivot.  A non-positive
\* diagonal entry always gives one; otherwise it depends on the numbers of
\* the epoch (gData.cond).
invPMinusThrows ==
  \/ ~isSquare(Pminus)
  \/ \E i \in 0..(Pminus.r - 1) : Pminus.e[i][i] <= 0
  \/ gData.cond = "badPminus"

\* The statements of lines 981-985 throw: a size mismatch in
\* designMatrixT * weightMatrix * designMatrix + invPMinus, or inverseChol
\* meets a non-positive pivot, which depends on the numbers of the epoch
\* (the diagonal of the sum is positive once invPMinus exists).
invTempThrows(H, W) ==
  \/ H.r # W.r \/ W.c # H.r \/ H.c # Pminus.r
  \/ gData.cond = "badInfo"

\* The values MeasUpdate computes in a successful epoch ep, not computed
\* here: fresh, positive, distinct per epoch and entry; the covariance is
\* symmetric (inverseChol returns transpose(LI) * LI).
PosteriorCov(ep, n) ==
  [r |-> n, c |-> n,
   e |-> [i \in 0..(n - 1) |-> [j \in 0..(n - 1) |->
            10000 * ep + 100 * Min(i, j) + Max(i, j) + 1]]]
PosteriorState(ep, n) == [i \in 0..(n - 1) |-> 100 * ep + i + 1]

\* PosteriorStateThrows, were the product of lines 999-1000 written with
\* designMatrix in place of designMatrixT (its shapes then never match here)
PosteriorStateThrows_shape(prefit, H, W, newP) ==
  \/ H.c # W.r \/ W.c # VSize(prefit)
  \/ Pminus.c # VSize(xhatminus)
  \/ newP.c # H.r

\* The statement of lines 999-1000 throws on a size mismatch of its operands
PosteriorStateThrows(prefit, H, W, newP) ==
  \/ H.r # W.r \/ W.c # VSize(prefit)
  \/ Pminus.c # VSize(xhatminus)
  \/ newP.c # H.c

\* MeasUpdate( measVector, hMatrix, rMatrix ), common to both solvers up to
\* the assignment of solution and covMatrix; `keep' is TRUE for SolverUpdNL,
\* which also overwrites xhatminus and Pminus (SolverUpdNL.cpp 791-792).
MeasUpdate(prefit, H, W, keep) ==
  LET n == VSize(xhatminus)
      newP == PosteriorCov(epoch, n)
      newX == PosteriorState(epoch, n)
  IN
  IF MeasUpdateRejects(prefit, H, W) # ""
  THEN /\ valid' = FALSE
       /\ Throw("ProcessingException", MeasUpdateRejects(prefit, H, W))
       /\ UNCHANGED <<xhat, P, xhatminus, Pminus, solution, covMatrix, postfitResiduals>>
  ELSE IF invPMinusThrows
  THEN /\ valid' = FALSE
       /\ Throw("ProcessingException", "MeasUpdate(): Unable to compute invPMinus matrix.")
       /\ UNCHANGED <<xhat, P, xhatminus, Pminus, solution, covMatrix, postfitResiduals>>
  ELSE IF invTempThrows(H, W)
  THEN /\ valid' = FALSE
       /\ Throw("ProcessingException", "MeasUpdate(): Unable to compute P matrix.")
       /\ UNCHANGED <<xhat, P, xhatminus, Pminus, solution, covMatrix, postfitResiduals>>
  ELSE IF PosteriorStateThrows(prefit, H, W, newP)
  THEN /\ valid' = FALSE
       /\ P' = newP
       /\ Throw("ProcessingException", "MeasUpdate(): Unable to compute xhat.")
       /\ UNCHANGED <<xhat, xhatminus, Pminus, solution, covMatrix, postfitResiduals>>
  ELSE /\ P' = newP
       /\ xhat' = newX
       /\ IF keep THEN xhatminus' = newX /\ Pminus' = newP
                  ELSE UNCHANGED <<xhatminus, Pminus>>
       /\ solution' = newX
       /\ covMatrix' = newP
       /\ postfitResiduals' = VecSub(prefit, MatVec(H, newX))
       /\ valid' = TRUE
       /\ pc' = "postCompute"
       /\ UNCHANGED outcome

\* SolverPPPUC::Compute, second call
UC_MeasUpdate ==
  /\ solver = "PPPUC" /\ pc = "MeasUpdate"
  /\ MeasUpdate(measVector, hMatrix, rMatrix, FALSE)
  /\ UNCHANGED <<otherVars, solverVars, firstTime, asmVars, carryVars, ambVars, gData, epoch, good>>

\* ---------------------------------------------- SolverPPPUC::postCompute
\* stateMap after lines 1035-1049
UC_stateMapStore(unk, nVar) ==
  [v \in {unk[k] : k \in 1..Len(unk)} |->
     LET k == CHOOSE k \in 1..Len(unk) : unk[k] = v IN solution[nVar + k - 1]]

\* UC_covarianceMapStore, were srcIndexedVarCov filled from the column of
\* the unknown itself instead of the column of the core type
UC_covarianceMapStore_col(unk, nVar, types) ==
  LET idx(v) == nVar + (CHOOSE k \in 1..Len(unk) : unk[k] = v) - 1
      S == {unk[k] : k \in 1..Len(unk)}
  IN [v \in S |->
        [sat |-> [w \in {x \in S : x = v \/ VarLess(v, x)} |-> covMatrix.e[idx(v)][idx(w)]],
         src |-> [t \in types |-> covMatrix.e[idx(v)][idx(v)]]]]

\* covarianceMap after lines 1036-1098: the diagonal, the upper triangle
\* and the covariances with the core unknowns
UC_covarianceMapStore(unk, nVar, types) ==
  LET tseq == TypeOrder(types)
      idx(v) == nVar + (CHOOSE k \in 1..Len(unk) : unk[k] = v) - 1
      S == {unk[k] : k \in 1..Len(unk)}
  IN [v \in S |->
        [sat |-> [w \in {x \in S : x = v \/ VarLess(v, x)} |-> covMatrix.e[idx(v)][idx(w)]],
         src |-> [t \in types |->
                    LET k == CHOOSE k \in 1..Len(tseq) : tseq[k] = t
                    IN covMatrix.e[idx(v)][k - 1]]]]

UC_postCompute ==
  /\ solver = "PPPUC" /\ pc = "postCompute"
  /\ stateMap' = UC_stateMapStore(InOrder(varUnknowns), numVar)
  /\ covarianceMap' = UC_covarianceMapStore(InOrder(varUnknowns), numVar, srcIndexedTypes)
  /\ numCurrentSV' = Cardinality(gData.sats)
  /\ currSatSet' = gData.sats
  /\ pc' = "idle"
  /\ outcome' = [type |-> "ok", msg |-> "", ctx |-> NoContext]
  /\ good' = [ep |-> epoch, unk |-> varUnknowns, sol |-> solution, cov |-> covMatrix,
              past |-> good.past \cup good.unk]
  /\ UNCHANGED <<otherVars, solverVars, firstTime, filterVars, ambVars, gData, epoch,
                 varUnknowns, numMeas, numVar, numUnknowns,
                 measVector, hMatrix, rMatrix, phiMatrix, qMatrix, imax>>

\* ------------------------------------------------- SolverUpdNL, equSystem
\* The equation system of SolverUpdNL: one code and one phase equation per
\* satellite; unknowns: the receiver clock, and per satellite the
\* ionospheric delay and the L1 ambiguity.
NL_srcTypes == {"cdt"}
NL_satTypes == {"ionoL1", "BL1"}

\* equSystem.getVarUnknowns()
NL_getVarUnknowns(g) ==
  {Variable(t, noSats) : t \in NL_srcTypes} \cup {Variable(t, s) : t \in NL_satTypes, s \in g.sats}

\* The column of Variable v in the unknowns unk (the code's index)
ColumnOf(unk, v) == (CHOOSE k \in 1..Len(unk) : unk[k] = v) - 1

\* equSystem.getPrefitsVector(): the code equations, then the phase ones
NL_getPrefitsVector(g) ==
  LET n == Cardinality(g.sats)
      c == getVectorOfTypeID(g, "prefitC")
      l == getVectorOfTypeID(g, "prefitL1")
  IN [i \in 0..(2 * n - 1) |-> IF i < n THEN c[i] ELSE l[i - n]]

\* equSystem.getGeometryMatrix()
NL_getGeometryMatrix(g) ==
  LET n == Cardinality(g.sats)
      so == SatOrder(g.sats)
      unk == InOrder(NL_getVarUnknowns(g))
      coef(i, v) ==
        LET s == so[(i % n) + 1]
        IN IF v.type = "cdt" THEN 1
           ELSE IF v.sat # s THEN 0
           ELSE IF v.type = "ionoL1" THEN (IF i < n THEN 1 ELSE -1)
           ELSE IF i < n THEN 0 ELSE CoefBL1
  IN [r |-> 2 * n, c |-> Len(unk),
      e |-> [i \in 0..(2 * n - 1) |-> [j \in 0..(Len(unk) - 1) |-> coef(i, unk[j + 1])]]]

\* equSystem.getWeightsMatrix()
NL_getWeightsMatrix(g) ==
  LET n == Cardinality(g.sats)
  IN [r |-> 2 * n, c |-> 2 * n,
      e |-> [i \in 0..(2 * n - 1) |-> [j \in 0..(2 * n - 1) |->
               IF i # j THEN 0 ELSE IF i < n THEN WeightCode ELSE WeightPhase]]]

\* equSystem.getPhiMatrix() and getQMatrix()
NL_getPhiMatrix(g) ==
  LET unk == InOrder(NL_getVarUnknowns(g))
  IN [r |-> Len(unk), c |-> Len(unk),
      e |-> [i \in 0..(Len(unk) - 1) |-> [j \in 0..(Len(unk) - 1) |->
               IF i = j THEN getPhi(unk[i + 1].type) ELSE 0]]]
NL_getQMatrix(g) ==
  LET unk == InOrder(NL_getVarUnknowns(g))
  IN [r |-> Len(unk), c |-> Len(unk),
      e |-> [i \in 0..(Len(unk) - 1) |-> [j \in 0..(Len(unk) - 1) |->
               IF i = j THEN getQ(unk[i + 1].type) ELSE 0]]]

\* The resolver (ambiguityDatum / indepAmbDatum): the ambiguities it fixes
\* and their values; none when g.fix is FALSE, else the BL1 of every
\* satellite but the last.
getAmbFixedMap(g) ==
  IF ~g.fix THEN EmptyMap
  ELSE [v \in {Variable("BL1", s) : s \in g.sats \ {SetMax(g.sats)}} |-> 7 * v.sat]

\* ---------------------------------------------- SolverUpdNL::preCompute
\* The prior state of a later epoch (SolverUpdNL.cpp 240-252)
NL_currentState(unk) == [i \in 0..(Len(unk) - 1) |-> Get(stateMap, unk[i + 1])]

\* covarianceMap[ v ] of SolverUpdNL, empty when v is no key
NL_Row(m, v) == IF v \in DOMAIN m THEN m[v] ELSE EmptyMap

\* The prior covariance of a later epoch (SolverUpdNL.cpp 241-297)
NL_currentErrorCov(unk) ==
  LET nU == Len(unk)
      v(i) == unk[i + 1]
  IN [r |-> nU, c |-> nU,
      e |-> [i \in 0..(nU - 1) |-> [j \in 0..(nU - 1) |->
           IF i = j
           THEN IF v(i) \in DOMAIN covarianceMap
                THEN Get(covarianceMap[v(i)], v(i))
                ELSE getInitialVariance(v(i))
           ELSE Get(NL_Row(covarianceMap, v(Min(i, j))), v(Max(i, j)))]]]

\* The keys that the operator[] reads of lines 250-290 add to covarianceMap
NL_covarianceMapRead(unkSet) ==
  LET later(v) == {w \in unkSet : VarLess(v, w)}
      touched == {v \in unkSet : v \in DOMAIN covarianceMap \/ later(v) # {}}
  IN [v \in (DOMAIN covarianceMap) \cup touched |->
        IF v \notin unkSet THEN covarianceMap[v]
        ELSE Touch(NL_Row(covarianceMap, v),
                   later(v) \cup (IF v \in DOMAIN covarianceMap THEN {v} ELSE {}))]

\* initialErrorCovariance of the first epoch (SolverUpdNL.cpp 212-227)
NL_initialErrorCovariance(unk) ==
  [r |-> Len(unk), c |-> Len(unk),
   e |-> [i \in 0..(Len(unk) - 1) |-> [j \in 0..(Len(unk) - 1) |->
            IF i = j THEN getInitialVariance(unk[i + 1]) ELSE 0]]]

NL_preCompute(g) ==
  LET unkSet == NL_getVarUnknowns(g)
      unk == InOrder(unkSet)
      nU == Len(unk)
  IN
  /\ solver = "UpdNL" /\ pc = "idle"
  /\ epoch' = epoch + 1
  /\ gData' = g
  /\ currSatSet' = g.sats
  /\ varUnknowns' = unkSet
  /\ numUnknowns' = nU
  /\ measVector' = NL_getPrefitsVector(g)
  /\ hMatrix' = NL_getGeometryMatrix(g)
  /\ rMatrix' = NL_getWeightsMatrix(g)
  /\ phiMatrix' = NL_getPhiMatrix(g)
  /\ qMatrix' = NL_getQMatrix(g)
  /\ IF firstTime
     THEN /\ xhat' = NewVector(nU, 0)
          /\ P' = NL_initialErrorCovariance(unk)
          /\ firstTime' = FALSE
          /\ UNCHANGED carryVars
     ELSE /\ xhat' = NL_currentState(unk)
          /\ P' = NL_currentErrorCov(unk)
          /\ stateMap' = Touch(stateMap, unkSet)
          /\ covarianceMap' = NL_covarianceMapRead(unkSet)
          /\ UNCHANGED firstTime
  /\ pc' = "TimeUpdate"
  /\ UNCHANGED <<otherVars, solverVars, ambVars, numCurrentSV, numMeas, numVar, imax,
                 xhatminus, Pminus, solution, covMatrix, postfitResiduals, valid,
                 outcome, good>>

\* SolverUpdNL::Compute, first call
NL_TimeUpdate ==
  /\ solver = "UpdNL" /\ pc = "TimeUpdate"
  /\ TimeUpdate(phiMatrix, qMatrix, numUnknowns)
  /\ UNCHANGED <<otherVars, solverVars, firstTime, asmVars, carryVars, ambVars, gData, epoch, good,
                 xhat, P, solution, covMatrix, postfitResiduals, valid>>

\* ------------------------------------------ SolverUpdNL::AmbiguityConstr
\* stateMapminus and covMapminus (SolverUpdNL.cpp 480-522)
NL_stateMapminus(unk) ==
  [v \in {unk[k] : k \in 1..Len(unk)} |-> xhatminus[ColumnOf(unk, v)]]
\* NL_covMapminus, were every pair stored in both orders
NL_covMapminus_both(unk) ==
  LET S == {unk[k] : k \in 1..Len(unk)}
  IN [v \in S |-> [w \in S |-> Pminus.e[ColumnOf(unk, v)][ColumnOf(unk, w)]]]

NL_covMapminus(unk) ==
  LET S == {unk[k] : k \in 1..Len(unk)}
  IN [v \in S |-> [w \in {x \in S : x = v \/ VarLess(v, x)} |->
                     Pminus.e[ColumnOf(unk, v)][ColumnOf(unk, w)]]]

RECURSIVE FindColumn(_, _, _)
\* "Find the ambiguity variable in 'unkSet'" (lines 583-589): jcol when the
\* loop stops
FindColumn(unk, v, jcol) ==
  IF jcol < Len(unk) /\ unk[jcol + 1] # v THEN FindColumn(unk, v, jcol + 1) ELSE jcol

\* NL_tempPrefit, were the rows of the fixed ambiguities put in front of the
\* assembled rows
NL_tempPrefit_front(fixed, fseq) ==
  LET nMeas == VSize(measVector)
      numFix == Len(fseq)
  IN [i \in 0..(nMeas + numFix - 1) |->
        IF i < numFix THEN fixed[fseq[i + 1]] ELSE measVector[i - numFix]]

\* NL_tempGeometry, were the search for the column of the fixed ambiguity
\* left out (jcol stays 0)
NL_tempGeometry_first(unk, fseq, nU) ==
  LET nMeas == VSize(measVector)
      numEqu == nMeas + Len(fseq)
  IN [r |-> numEqu, c |-> nU,
      e |-> [i \in 0..(numEqu - 1) |-> [j \in 0..(nU - 1) |->
               IF i < nMeas THEN hMatrix.e[i][j]
               ELSE IF j = 0 THEN 1 ELSE 0]]]

\* tempPrefit, tempGeometry and tempWeight (lines 605-667): the m assembled
\* rows, then one row per fixed ambiguity, fseq being the keys of
\* ambFixedMap in map order.
NL_tempPrefit(fixed, fseq) ==
  LET nMeas == VSize(measVector)
  IN [i \in 0..(nMeas + Len(fseq) - 1) |->
        IF i < nMeas THEN measVector[i] ELSE fixed[fseq[i - nMeas + 1]]]

NL_tempGeometry(unk, fseq, nU) ==
  LET nMeas == VSize(measVector)
      numEqu == nMeas + Len(fseq)
  IN [r |-> numEqu, c |-> nU,
      e |-> [i \in 0..(numEqu - 1) |-> [j \in 0..(nU - 1) |->
               IF i < nMeas THEN hMatrix.e[i][j]
               ELSE IF j = FindColumn(unk, fseq[i - nMeas + 1], 0) THEN 1 ELSE 0]]]

NL_tempWeight(fseq) ==
  LET nMeas == VSize(measVector)
      numEqu == nMeas + Len(fseq)
  IN [r |-> numEqu, c |-> numEqu,
      e |-> [i \in 0..(numEqu - 1) |-> [j \in 0..(numEqu - 1) |->
               IF i # j THEN 0
               ELSE IF i < nMeas THEN rMatrix.e[i][i] ELSE WeightFix]]]

\* The ProcessingException of an empty ambFixedMap leaves AmbiguityConstr
\* (declared throw(ProcessingException)) inside Compute, which is declared
\* throw(InvalidSolver) (line 335): where the build enforces exception
\* specifications the program ends there, where it ignores them the
\* exception reaches the handler of Process.
\* The column search of lines 583-589 has no end test: for an ambiguity
\* that is not among the unknowns the iterator is moved past end(), which
\* is undefined.  The program may end there; or the search stops at some
\* jcol outside the row, and the write hMatrixFix( nrow, jcol ) throws where
\* the index is range-checked and falls outside the row where it is not.
AmbiguityConstr(fixed) ==
  LET unk == InOrder(varUnknowns)
      fseq == InOrder(DOMAIN fixed)
      numFix == Len(fseq)
      pastEnd == \E v \in DOMAIN fixed : v \notin varUnknowns
  IN
  /\ solver = "UpdNL" /\ pc = "AmbiguityConstr"
  /\ stateMapminus' = NL_stateMapminus(unk)
  /\ covMapminus' = NL_covMapminus(unk)
  /\ ambFixedMap' = fixed
  /\ IF numFix = 0
     THEN /\ \/ Throw("ProcessingException", "The ambiguity constraint equation number is 0.")
             \/ Terminate("The ambiguity constraint equation number is 0.")
          /\ UNCHANGED <<measVector, hMatrix, rMatrix>>
     ELSE \/ /\ pastEnd
             /\ \/ Terminate("AmbiguityConstr(): column search past the end")
                \/ /\ gData.ub = "check"
                   /\ Throw("ProcessingException", "index out of range")
             /\ UNCHANGED <<measVector, hMatrix, rMatrix>>
          \/ /\ pastEnd => gData.ub = "raw"
             /\ measVector' = NL_tempPrefit(fixed, fseq)
             /\ hMatrix' = NL_tempGeometry(unk, fseq, numUnknowns)
             /\ rMatrix' = NL_tempWeight(fseq)
             /\ pc' = "MeasUpdate"
             /\ UNCHANGED outcome
  /\ UNCHANGED <<otherVars, solverVars, firstTime, carryVars, filterVars, gData, epoch, good,
                 currSatSet, varUnknowns, numCurrentSV, numMeas, numVar, numUnknowns,
                 phiMatrix, qMatrix, imax, fixingDataMap>>

\* SolverUpdNL::Compute, second call
NL_AmbiguityConstr == AmbiguityConstr(getAmbFixedMap(gData))

\* SolverUpdNL::Compute, third call
NL_MeasUpdate ==
  /\ solver = "UpdNL" /\ pc = "MeasUpdate"
  /\ MeasUpdate(measVector, hMatrix, rMatrix, TRUE)
  /\ UNCHANGED <<otherVars, solverVars, firstTime, asmVars, carryVars, ambVars, gData, epoch, good>>

\* ---------------------------------------------- SolverUpdNL::postCompute
\* stateMap and covarianceMap after lines 821-875
NL_stateMapStore(unk) ==
  [v \in {unk[k] : k \in 1..Len(unk)} |-> solution[ColumnOf(unk, v)]]
NL_covarianceMapStore(unk) ==
  LET S == {unk[k] : k \in 1..Len(unk)}
  IN [v \in S |-> [w \in {x \in S : x = v \/ VarLess(v, x)} |->
                     covMatrix.e[ColumnOf(unk, v)][ColumnOf(unk, w)]]]

\* The scale of a stored fixing rate: a rate is kept as a whole number
\* of 1/RateScale, the quotient rounded to nearest
RateScale == 1000

\* numNL1/numBL1 in doubles (line 963): a division by zero is no error
\* there, it gives NaN for 0/0 and infinity otherwise
fixingRateOf(numNL1, numBL1) ==
  IF numBL1 = 0 THEN (IF numNL1 = 0 THEN "nan" ELSE "inf")
  ELSE (2 * numNL1 * RateScale + numBL1) \div (2 * numBL1)

\* fixingDataMap[sat] of a satellite the map does not hold yet
NewFixingData == [floatAmbNumb |-> 0, fixedAmbNumb |-> 0, fixingRate |-> 0]

\* NL_fixingCounts, were fixingDataMap not cleared first
NL_fixingCounts_kept(prev, unkSet, fixed) ==
  LET touched == (DOMAIN prev) \cup {v.sat : v \in {u \in unkSet : u.type = "BL1"}}
                   \cup {v.sat : v \in DOMAIN fixed}
      old(s) == IF s \in DOMAIN prev THEN prev[s] ELSE NewFixingData
  IN [s \in touched |->
        [old(s) EXCEPT
           !.floatAmbNumb = @ + Cardinality({v \in unkSet : v.type = "BL1" /\ v.sat = s}),
           !.fixedAmbNumb = @ + Cardinality({v \in DOMAIN fixed : v.sat = s})]]

\* fixingDataMap after the two counting loops (lines 917-948): the map is
\* cleared, every BL1 unknown adds one to its satellite's float count,
\* every entry of ambFixedMap one to its satellite's fixed count
NL_fixingCounts(prev, unkSet, fixed) ==
  LET touched == {v.sat : v \in {u \in unkSet : u.type = "BL1"}}
                   \cup {v.sat : v \in DOMAIN fixed}
  IN [s \in touched |->
        [NewFixingData EXCEPT
           !.floatAmbNumb = Cardinality({v \in unkSet : v.type = "BL1" /\ v.sat = s}),
           !.fixedAmbNumb = Cardinality({v \in DOMAIN fixed : v.sat = s})]]

\* ... and after the rate loop over the satellites of gdsMap (950-965)
NL_fixingRates(counts, sats) ==
  [s \in (DOMAIN counts) \cup sats |->
     LET d == IF s \in DOMAIN counts THEN counts[s] ELSE NewFixingData
     IN IF s \in sats
        THEN [d EXCEPT !.fixingRate = fixingRateOf(d.fixedAmbNumb, d.floatAmbNumb)]
        ELSE d]

NL_postCompute ==
  /\ solver = "UpdNL" /\ pc = "postCompute"
  /\ stateMap' = NL_stateMapStore(InOrder(varUnknowns))
  /\ covarianceMap' = NL_covarianceMapStore(InOrder(varUnknowns))
  /\ fixingDataMap' = NL_fixingRates(NL_fixingCounts(fixingDataMap, varUnknowns, ambFixedMap),
                                     gData.sats)
  /\ pc' = "idle"
  /\ outcome' = [type |-> "ok", msg |-> "", ctx |-> NoContext]
  /\ good' = [ep |-> epoch, unk |-> varUnknowns, sol |-> solution, cov |-> covMatrix,
              past |-> good.past \cup good.unk]
  /\ UNCHANGED <<otherVars, solverVars, firstTime, filterVars, gData, epoch, asmVars,
                 stateMapminus, covMapminus, ambFixedMap>>

\* ----------------------------------------------------------- the inputs
JunkValues == {0, 9}

\* The satellite sets of an epoch: all satellites, all but the first, and
\* one set that is too small for SolverPPPUC
UC_SatChoices == {Sats, Sats \ {1}, 1..(MinSV - 1)}

\* TRUE when building the prior reads `solution' outside its storage
UC_CoreReadUndefined == ~firstTime /\ VSize(solution) < Cardinality(srcIndexedTypes)

\* Epochs with a satellite above the horizon, the first satellite highest
UC_Inputs ==
  {g \in [sats : UC_SatChoices, top : Sats, hasWeights : {FALSE},
          cond : {"ok", "badPminus", "badInfo"}, fix : {FALSE},
          ub : {"raw", "check"}, gimax : {0}, junk : JunkValues] :
     /\ g.top = CHOOSE s \in g.sats : \A t \in g.sats : s <= t
     /\ Cardinality(g.sats) < MinSV => g.cond = "ok"
     /\ ~(UC_CoreReadUndefined /\ Cardinality(g.sats) >= MinSV)
          => g.ub = "raw" /\ g.junk = 0
     /\ g.ub = "check" => g.junk = 0}

\* Process is called with the data of the next epoch
UC_Process_preCompute ==
  /\ solver = "PPPUC" /\ pc = "idle" /\ epoch < MaxEpoch
  /\ \E g \in UC_Inputs : UC_preCompute(g)

\* The satellite sets of an epoch of SolverUpdNL
NL_SatChoices == {Sats, Sats \ {1}, Sats \ {MaxSat}}

NL_Inputs ==
  {g \in [sats : NL_SatChoices, top : {0}, hasWeights : {FALSE},
          cond : {"ok", "badPminus", "badInfo"}, fix : BOOLEAN,
          ub : {"raw"}, gimax : {0}, junk : {0}] :
     ~g.fix => g.cond = "ok"}

NL_Process_preCompute ==
  /\ solver = "UpdNL" /\ pc = "idle" /\ epoch < MaxEpoch
  /\ \E g \in NL_Inputs : NL_preCompute(g)

Next ==
  \/ NL_Process_preCompute
  \/ NL_TimeUpdate
  \/ NL_AmbiguityConstr
  \/ NL_MeasUpdate
  \/ NL_postCompute
  \/ UC_Process_preCompute
  \/ UC_TimeUpdate
  \/ UC_MeasUpdate
  \/ UC_postCompute

Spec == Init /\ [][Next]_vars

\* ------------------------------------------- satellites that come back
\* Longer runs of either solver over fewer kinds of epoch: the first
\* satellite is in view or not, and the epoch's numbers are well
\* conditioned or make the inversion of MeasUpdate fail.
MaxGapEpoch == 4

Gap_SatChoices == {Sats, Sats \ {1}}

Gap_UC_Inputs ==
  {g \in UC_Inputs : g.sats \in Gap_SatChoices /\ g.cond \in {"ok", "badInfo"}}

Gap_NL_Inputs ==
  {g \in NL_Inputs : g.sats \in Gap_SatChoices /\ g.cond \in {"ok", "badInfo"} /\ g.fix}

Gap_UC_Process_preCompute ==
  /\ solver = "PPPUC" /\ pc = "idle" /\ epoch < MaxGapEpoch
  /\ \E g \in Gap_UC_Inputs : UC_preCompute(g)

Gap_NL_Process_preCompute ==
  /\ solver = "UpdNL" /\ pc = "idle" /\ epoch < MaxGapEpoch
  /\ \E g \in Gap_NL_Inputs : NL_preCompute(g)

NextGap ==
  \/ Gap_NL_Process_preCompute
  \/ NL_TimeUpdate
  \/ NL_AmbiguityConstr
  \/ NL_MeasUpdate
  \/ NL_postCompute
  \/ Gap_UC_Process_preCompute
  \/ UC_TimeUpdate
  \/ UC_MeasUpdate
  \/ UC_postCompute

SpecGap == Init /\ [][NextGap]_vars

\* ------------------------------------ a resolver with a memory of its own
\* Epochs of SolverUpdNL whose resolver may also return the ambiguity of a
\* satellite it has fixed before (foreign, 0 for none), in view or not.
MaxFixEpoch == 2

Fix_Inputs ==
  {[g EXCEPT !.ub = u] @@ [foreign |-> s] :
     g \in {x \in NL_Inputs : x.cond = "ok" /\ x.fix},
     u \in {"raw", "check"}, s \in {0, MaxSat}}

\* The answer of such a resolver
Fix_getAmbFixedMap(g) ==
  LET own == getAmbFixedMap(g)
      V == DOMAIN own \cup (IF g.foreign = 0 THEN {} ELSE {Variable("BL1", g.foreign)})
  IN [v \in V |-> IF v \in DOMAIN own THEN own[v] ELSE 7 * v.sat]

Fix_Process_preCompute ==
  /\ solver = "UpdNL" /\ pc = "idle" /\ epoch < MaxFixEpoch
  /\ \E g \in Fix_Inputs : NL_preCompute(g)

Fix_AmbiguityConstr == AmbiguityConstr(Fix_getAmbFixedMap(gData))

NextFix ==
  \/ Fix_Process_preCompute
  \/ NL_TimeUpdate
  \/ Fix_AmbiguityConstr
  \/ NL_MeasUpdate
  \/ NL_postCompute

InitFix == Init /\ solver = "UpdNL"

SpecFix == InitFix /\ [][NextFix]_vars

\* ------------------------------------- SolverPPPUC, the configuration calls
\* srcIndexedTypes after setNEU( useNEU ) (lines 1186-1204): the types are
\* inserted into the set, which is not cleared first
setNEU(types, fixPos, useNEU) ==
  types \cup {"wetMap"}
        \cup (IF ~fixPos
              THEN (IF useNEU THEN {"dLat", "dLon", "dH"} ELSE {"dx", "dy", "dz"})
              ELSE {})
        \cup {"cdt"}

Cfg_setNEU ==
  /\ solver = "PPPUC" /\ pc = "idle"
  /\ \E useNEU \in BOOLEAN :
       srcIndexedTypes' = setNEU(srcIndexedTypes, fixCoordinate, useNEU)
  /\ satIndexedTypes' = satIndexedTypes \cup setNEU_sat
  /\ UNCHANGED <<otherVars, solver, fixCoordinate, firstTime, asmVars, filterVars, carryVars,
                 ambVars, gData, pc, outcome, epoch, good>>

\* setFixCoordinate( fixPos ) (lines 1230-1239) assigns the flag only
Cfg_setFixCoordinate ==
  /\ solver = "PPPUC" /\ pc = "idle"
  /\ \E fixPos \in BOOLEAN : fixCoordinate' = fixPos
  /\ UNCHANGED <<otherVars, solver, srcIndexedTypes, satIndexedTypes, firstTime, asmVars, filterVars,
                 carryVars, ambVars, gData, pc, outcome, epoch, good>>

MaxCfgEpoch == 2

\* Epochs of enough satellites with well-conditioned numbers
Cfg_Inputs == {g \in UC_Inputs : Cardinality(g.sats) >= MinSV /\ g.cond = "ok"}

Cfg_Process_preCompute ==
  /\ solver = "PPPUC" /\ pc = "idle" /\ epoch < MaxCfgEpoch
  /\ \E g \in Cfg_Inputs : UC_preCompute(g)

NextCfg ==
  \/ Cfg_setNEU
  \/ Cfg_setFixCoordinate
  \/ Cfg_Process_preCompute
  \/ UC_TimeUpdate
  \/ UC_MeasUpdate
  \/ UC_postCompute

\* A SolverPPPUC after construction
InitCfg == Init /\ solver = "PPPUC"

SpecCfg == InitCfg /\ [][NextCfg]_vars

\* ------------------------------------------- the assembly of one epoch
\* The assembly of SolverPPPUC::preCompute alone, over every kind of
\* elevation and weight data: no satellite above the horizon (top = 0, so
\* that imax stays uninitialised), the first or the last satellite highest,
\* weights present or not.
MaxAsmEpoch == 1

Asm_Inputs ==
  {g \in [sats : UC_SatChoices, top : {0} \cup Sats, hasWeights : BOOLEAN,
          cond : {"ok"}, fix : {FALSE},
          ub : {"raw", "check"}, gimax : (-1)..MaxSat, junk : JunkValues] :
     LET n == Cardinality(g.sats)
         first == CHOOSE s \in g.sats : \A t \in g.sats : s <= t
         undefinedRead == g.top = 0 /\ g.gimax \notin 0..(n - 1)
     IN /\ g.top \in {0, first, SetMax(g.sats)}
        /\ n < MinSV => g.top = first /\ ~g.hasWeights
        /\ g.gimax \in (IF g.top = 0 THEN {-1, 1, n} ELSE {0})
        /\ ~undefinedRead => g.ub = "raw" /\ g.junk = 0
        /\ g.ub = "check" => g.junk = 0}

Asm_Process_preCompute ==
  /\ solver = "PPPUC" /\ pc = "idle" /\ epoch < MaxAsmEpoch
  /\ \E g \in Asm_Inputs : UC_preCompute(g)

InitAsm == Init /\ solver = "PPPUC"

NextAsm ==
  \/ Asm_Process_preCompute
  \/ UC_TimeUpdate
  \/ UC_MeasUpdate
  \/ UC_postCompute

SpecAsm == InitAsm /\ [][NextAsm]_vars

\* ------------------------------------ TimeUpdate and MeasUpdate alone
\* TimeUpdate and MeasUpdate called with arguments of any shape in the state
\* preCompute has left: each argument is the member Compute would pass, or
\* that member with its last row, its last column or both taken away.
MaxKFEpoch == 1

\* The matrix M without its last d[1] rows and its last d[2] columns
Crop(M, d) ==
  [r |-> M.r - d[1], c |-> M.c - d[2],
   e |-> [i \in 0..(M.r - d[1] - 1) |-> [j \in 0..(M.c - d[2] - 1) |-> M.e[i][j]]]]

\* The vector v without its last d entries
CropVector(v, d) == [i \in 0..(VSize(v) - d - 1) |-> v[i]]

\* What is taken away from each argument
KF_Args ==
  [phi : {<<0, 0>>, <<0, 1>>, <<1, 1>>},
   q : {<<0, 0>>, <<0, 1>>, <<1, 1>>},
   prefit : 0..1,
   h : {<<0, 0>>, <<1, 0>>, <<0, 1>>},
   w : {<<0, 0>>, <<0, 1>>, <<1, 1>>}]

\* The epochs: all satellites, well-conditioned numbers, any arguments
KF_UC_Inputs ==
  {g @@ [args |-> a] : g \in {x \in UC_Inputs : x.sats = Sats /\ x.cond = "ok"},
                       a \in KF_Args}
KF_NL_Inputs ==
  {g @@ [args |-> a] : g \in {x \in NL_Inputs : x.sats = Sats /\ x.cond = "ok" /\ ~x.fix},
                       a \in KF_Args}

KF_UC_preCompute ==
  /\ solver = "PPPUC" /\ pc = "idle" /\ epoch < MaxKFEpoch
  /\ \E g \in KF_UC_Inputs : UC_preCompute(g)

KF_NL_preCompute ==
  /\ solver = "UpdNL" /\ pc = "idle" /\ epoch < MaxKFEpoch
  /\ \E g \in KF_NL_Inputs : NL_preCompute(g)

\* The arguments of the two calls
KF_phiMatrix == Crop(phiMatrix, gData.args.phi)
KF_processNoiseCovariance == Crop(qMatrix, gData.args.q)
KF_prefitResiduals == CropVector(measVector, gData.args.prefit)
KF_designMatrix == Crop(hMatrix, gData.args.h)
KF_weightMatrix == Crop(rMatrix, gData.args.w)

\* TimeUpdate( phiMatrix, processNoiseCovariance ) of either solver
KF_TimeUpdate ==
  /\ pc = "TimeUpdate"
  /\ TimeUpdate(KF_phiMatrix, KF_processNoiseCovariance, numUnknowns)
  /\ UNCHANGED <<otherVars, solverVars, firstTime, asmVars, carryVars, ambVars, gData, epoch, good,
                 xhat, P, solution, covMatrix, postfitResiduals, valid>>

\* MeasUpdate( prefitResiduals, designMatrix, weightMatrix ) of either
\* solver, called next
KF_MeasUpdate ==
  /\ pc = (IF solver = "UpdNL" THEN "AmbiguityConstr" ELSE "MeasUpdate")
  /\ MeasUpdate(KF_prefitResiduals, KF_designMatrix, KF_weightMatrix, solver = "UpdNL")
  /\ UNCHANGED <<otherVars, solverVars, firstTime, asmVars, carryVars, ambVars, gData, epoch, good>>

NextKF ==
  \/ KF_UC_preCompute
  \/ KF_NL_preCompute
  \/ KF_TimeUpdate
  \/ KF_MeasUpdate

SpecKF == Init /\ [][NextKF]_vars

\* --------------------------------------- the arithmetic of the filter
\* TimeUpdate and MeasUpdate with their arithmetic carried out.  A double
\* holds a number to a finite precision and every product, quotient and
\* square root is rounded to it; here a number is a whole count of 1/Unit
\* and each operation rounds to the nearest count.  Sums and differences of
\* such counts are exact.
Unit == 16

\* n / d rounded to the nearest integer (d > 0)
fxRound(n, d) == (2 * n + d) \div (2 * d)
fxMul(a, b) == fxRound(a * b, Unit)
fxDiv(a, b) == fxRound(a * Unit, b)

\* SQRT(a), a >= 0
fxSqrt(a) ==
  LET t == a * Unit
      r == CHOOSE x \in 0..(t + 1) : x * x <= t /\ (x + 1) * (x + 1) > t
  IN IF t - r * r <= (r + 1) * (r + 1) - t THEN r ELSE r + 1

\* Matrix * Matrix and Matrix * Vector: each entry the sum of the rounded
\* products
fxMatMul(A, B) ==
  [r |-> A.r, c |-> B.c,
   e |-> Eval([i \in 0..(A.r - 1) |-> [j \in 0..(B.c - 1) |->
            SumOver([k \in 0..(A.c - 1) |-> fxMul(A.e[i][k], B.e[k][j])],
                    0..(A.c - 1))]])]
fxMatVec(M, v) ==
  [i \in 0..(M.r - 1) |->
     SumOver([k \in 0..(M.c - 1) |-> fxMul(M.e[i][k], v[k])], 0..(M.c - 1))]

VecAdd(a, b) == [i \in DOMAIN a |-> a[i] + b[i]]

\* inverseChol(M) for a matrix of one or two rows: the Cholesky-Crout
\* factor L of M (from the lower triangle of M), the inverse LI of L, and
\* transpose(LI) * LI.  `ok' is FALSE when the factorisation meets a pivot
\* that is not positive, which inverseChol reports by an exception.
fxInverseChol(M) ==
  LET d0 == M.e[0][0]
      L00 == fxSqrt(d0)
      LI00 == fxDiv(Unit, L00)
  IN IF d0 <= 0 THEN [ok |-> FALSE, m |-> M]
     ELSE IF M.r = 1
     THEN [ok |-> TRUE, m |-> [r |-> 1, c |-> 1, e |-> [i \in {0} |-> [j \in {0} |-> fxMul(LI00, LI00)]]]]
     ELSE LET L10 == fxDiv(M.e[1][0], L00)
              d1 == M.e[1][1] - fxMul(L10, L10)
              L11 == fxSqrt(d1)
              LI11 == fxDiv(Unit, L11)
              LI10 == fxMul(-fxMul(L10, LI00), LI11)
              LI == [r |-> 2, c |-> 2,
                     e |-> [i \in 0..1 |-> [j \in 0..1 |->
                             IF i = 0 /\ j = 0 THEN LI00
                             ELSE IF i = 1 /\ j = 0 THEN LI10
                             ELSE IF i = 1 /\ j = 1 THEN LI11 ELSE 0]]]
          IN IF d1 <= 0 THEN [ok |-> FALSE, m |-> M]
             ELSE [ok |-> TRUE, m |-> fxMatMul(transpose(LI), LI)]

\* The numbers the inputs are made of: 0, a number that is no whole count
\* of 1/2, 1 and 2
Num_Values == {0, Unit \div 4 + 1, Unit, 2 * Unit}

\* The symmetric positive semi-definite matrices of n rows over Num_Values
Num_PSD(n) ==
  {M \in {[r |-> n, c |-> n, e |-> e] : e \in [0..(n - 1) -> [0..(n - 1) -> Num_Values]]} :
     /\ IsSymmetric(M)
     /\ n = 2 => /\ M.e[0][0] * M.e[1][1] >= M.e[0][1] * M.e[1][0]
                 /\ M.e[0][1] # 0 => M.e[0][1] < Unit}

\* The objects TimeUpdate and MeasUpdate are applied to: n unknowns, any
\* transition matrix over three values, symmetric positive semi-definite
\* P and Q (Q diagonal), one measurement whose design row is all zeros or
\* observes the first unknown
Num_Inputs ==
  UNION {[n : {n},
          phi : {[r |-> n, c |-> n, e |-> e] :
                   e \in [0..(n - 1) -> [0..(n - 1) -> Num_Values \ {2 * Unit}]]},
          P : Num_PSD(n),
          Q : {NewMatrix(n, n, 0),
               [r |-> n, c |-> n, e |-> [i \in 0..(n - 1) |-> [j \in 0..(n - 1) |->
                                            IF i = j THEN Unit ELSE 0]]]},
          h : {0, Unit},
          w : {Unit, 2 * Unit}] : n \in 1..2}

\* A solver whose preCompute has left the prior, the matrices of the
\* filter and the equations of the epoch
InitNum ==
  /\ AlignConstructed /\ phaseWavelength = setPhaseWavelength(0) /\ useSatArcs = TRUE /\ VariableConstructed("dx")
  /\ solver \in {"UpdNL", "PPPUC"}
  /\ fixCoordinate = FALSE
  /\ srcIndexedTypes = {} /\ satIndexedTypes = {}
  /\ firstTime = TRUE /\ valid = FALSE
  /\ currSatSet = {} /\ varUnknowns = {}
  /\ numCurrentSV = 0 /\ numVar = 0
  /\ \E in \in Num_Inputs :
       /\ numUnknowns = in.n /\ numMeas = 1
       /\ phiMatrix = in.phi /\ qMatrix = in.Q
       /\ xhat = [i \in 0..(in.n - 1) |-> (i + 1) * Unit + 3]
       /\ P = in.P
       /\ measVector = [i \in {0} |-> 7]
       /\ hMatrix = [r |-> 1, c |-> in.n,
                     e |-> [i \in {0} |-> [j \in 0..(in.n - 1) |-> IF j = 0 THEN in.h ELSE 0]]]
       /\ rMatrix = [r |-> 1, c |-> 1, e |-> [i \in {0} |-> [j \in {0} |-> in.w]]]
  /\ xhatminus = EmptyVector /\ Pminus = EmptyMatrix
  /\ solution = EmptyVector /\ covMatrix = EmptyMatrix
  /\ postfitResiduals = EmptyVector
  /\ stateMap = EmptyMap /\ covarianceMap = EmptyMap
  /\ stateMapminus = EmptyMap /\ covMapminus = EmptyMap /\ ambFixedMap = EmptyMap
  /\ fixingDataMap = EmptyMap
  /\ imax = 0
  /\ gData = NoData
  /\ pc = "TimeUpdate"
  /\ outcome = [type |-> "none", msg |-> "", ctx |-> NoContext]
  /\ epoch = 1
  /\ good = NoGood

\* TimeUpdate( phiMatrix, qMatrix ) of either solver
Num_TimeUpdate ==
  /\ pc = "TimeUpdate"
  /\ IF TimeUpdateRejects(phiMatrix, numUnknowns) # ""
     THEN /\ Throw("ProcessingException", TimeUpdateRejects(phiMatrix, numUnknowns))
          /\ UNCHANGED <<xhatminus, Pminus>>
     ELSE /\ xhatminus' = fxMatVec(phiMatrix, xhat)
          /\ Pminus' = MatAdd(fxMatMul(fxMatMul(phiMatrix, P), transpose(phiMatrix)), qMatrix)
          /\ pc' = "MeasUpdate"
          /\ UNCHANGED outcome
  /\ UNCHANGED <<otherVars, solverVars, firstTime, asmVars, carryVars, ambVars, gData, epoch, good,
                 xhat, P, solution, covMatrix, postfitResiduals, valid>>

\* MeasUpdate( measVector, hMatrix, rMatrix ) of either solver
Num_MeasUpdate ==
  LET HT == transpose(hMatrix)
      invPMinus == fxInverseChol(Pminus)
      invTemp == MatAdd(fxMatMul(fxMatMul(HT, rMatrix), hMatrix), invPMinus.m)
      newP == fxInverseChol(invTemp)
      newX == fxMatVec(newP.m, VecAdd(fxMatVec(fxMatMul(HT, rMatrix), measVector),
                                      fxMatVec(invPMinus.m, xhatminus)))
      fails == IF MeasUpdateRejects(measVector, hMatrix, rMatrix) # ""
               THEN MeasUpdateRejects(measVector, hMatrix, rMatrix)
               ELSE IF ~invPMinus.ok THEN "MeasUpdate(): Unable to compute invPMinus matrix."
               ELSE IF ~newP.ok THEN "MeasUpdate(): Unable to compute P matrix."
               ELSE ""
  IN
  /\ pc = "MeasUpdate"
  /\ IF fails # ""
     THEN /\ valid' = FALSE
          /\ Throw("ProcessingException", fails)
          /\ UNCHANGED <<xhat, P, xhatminus, Pminus, solution, covMatrix, postfitResiduals>>
     ELSE /\ P' = newP.m
          /\ xhat' = newX
          /\ IF solver = "UpdNL" THEN xhatminus' = newX /\ Pminus' = newP.m
                                 ELSE UNCHANGED <<xhatminus, Pminus>>
          /\ solution' = newX
          /\ covMatrix' = newP.m
          /\ postfitResiduals' = VecSub(measVector, fxMatVec(hMatrix, newX))
          /\ valid' = TRUE
          /\ pc' = "postCompute"
          /\ UNCHANGED outcome
  /\ UNCHANGED <<otherVars, solverVars, firstTime, asmVars, carryVars, ambVars, gData, epoch, good>>

NextNum ==
  \/ Num_TimeUpdate
  \/ Num_MeasUpdate

SpecNum == InitNum /\ [][NextNum]_vars

\* ------------------------------------------------------ class Variable
MaxVarCalls == 3

\* The setters of Variable.hpp
setType(v, type) == [v EXCEPT !.varType = type]
setModel(v, pModel) == [v EXCEPT !.pVarModel = pModel]
setSourceIndexed(v, sourceIndexed) == [v EXCEPT !.isSourceIndexed = sourceIndexed]
setSatIndexed(v, satIndexed) == [v EXCEPT !.isSatIndexed = satIndexed]
setTypeIndexed(v, typeIndexed) == [v EXCEPT !.isTypeIndexed = typeIndexed]
setInitialVariance(v, variance) == [v EXCEPT !.initialVariance = variance]
setDefaultCoefficient(v, coef) == [v EXCEPT !.defaultCoefficient = coef]
\* setDefaultForced, were it to assign the flag next to the one it names
setDefaultForced_satIndexed(v, forceCoef) == [v EXCEPT !.isSatIndexed = forceCoef]
setDefaultForced(v, forceCoef) == [v EXCEPT !.forceDefault = forceCoef]
setSource(v, source) == [v EXCEPT !.varSource = source]
setSatellite(v, satellite) == [v EXCEPT !.varSat = satellite]
setNowIndex(v, index) == [v EXCEPT !.m_now_index = index]
setPreIndex(v, index) == [v EXCEPT !.m_pre_index = index]

\* The fields that make the identity of a Variable, in the order in which
\* operator< compares them
VarKey(v) ==
  <<TypeRank(v.varType), v.varSource, v.varSat,
    IF v.isSourceIndexed THEN 1 ELSE 0, IF v.isSatIndexed THEN 1 ELSE 0>>

\* Variable::operator==
VarEq(a, b) == VarKey(a) = VarKey(b)

\* Variable::operator< : the first field of the identity that differs
VarLt(a, b) ==
  \E k \in 1..5 : /\ VarKey(a)[k] < VarKey(b)[k]
                  /\ \A l \in 1..(k - 1) : VarKey(a)[l] = VarKey(b)[l]

\* std::set<Variable>::find : the elements equivalent to v under operator<
VarFind(S, v) == {e \in S : ~VarLt(e, v) /\ ~VarLt(v, e)}

\* std::set<Variable>::insert : a copy of v, unless it holds an equivalent
VarInsert(S, v) == IF VarFind(S, v) # {} THEN S ELSE S \cup {v}

\* A member function of `variable' is called, or `variable' is inserted
\* into the set
VarCall(op, v) ==
  /\ varCalls < MaxVarCalls
  /\ varCalls' = varCalls + 1
  /\ varOp' = op
  /\ variable' = v
  /\ UNCHANGED <<kalmanVars, alignVars>>

Var_insert == VarCall("insert", variable) /\ varStore' = VarInsert(varStore, variable)
Var_setType ==
  \E t \in {"dx", "BL1"} : VarCall("setType", setType(variable, t)) /\ UNCHANGED varStore
Var_setModel ==
  \E m \in {"defaultModel", "ambiModel"} :
    VarCall("setModel", setModel(variable, m)) /\ UNCHANGED varStore
Var_setSourceIndexed ==
  \E b \in BOOLEAN :
    VarCall("setSourceIndexed", setSourceIndexed(variable, b)) /\ UNCHANGED varStore
Var_setSatIndexed ==
  \E b \in BOOLEAN :
    VarCall("setSatIndexed", setSatIndexed(variable, b)) /\ UNCHANGED varStore
Var_setTypeIndexed ==
  \E b \in BOOLEAN :
    VarCall("setTypeIndexed", setTypeIndexed(variable, b)) /\ UNCHANGED varStore
Var_setInitialVariance ==
  \E x \in {VariableDefaultVariance, VarAmb1st} :
    VarCall("setInitialVariance", setInitialVariance(variable, x)) /\ UNCHANGED varStore
Var_setDefaultCoefficient ==
  \E x \in 1..2 :
    VarCall("setDefaultCoefficient", setDefaultCoefficient(variable, x)) /\ UNCHANGED varStore
Var_setDefaultForced ==
  \E b \in BOOLEAN :
    VarCall("setDefaultForced", setDefaultForced(variable, b)) /\ UNCHANGED varStore
Var_setSource ==
  \E x \in {allSources, 1} :
    VarCall("setSource", setSource(variable, x)) /\ UNCHANGED varStore
Var_setSatellite ==
  \E x \in {noSats, 1} :
    VarCall("setSatellite", setSatellite(variable, x)) /\ UNCHANGED varStore
Var_setNowIndex ==
  \E x \in (-1)..0 :
    VarCall("setNowIndex", setNowIndex(variable, x)) /\ UNCHANGED varStore
Var_setPreIndex ==
  \E x \in (-1)..0 :
    VarCall("setPreIndex", setPreIndex(variable, x)) /\ UNCHANGED varStore

InitVar ==
  /\ SolverConstructed /\ solver = "PPPUC" /\ fixCoordinate = FALSE
  /\ AlignConstructed /\ phaseWavelength = setPhaseWavelength(0) /\ useSatArcs = TRUE
  /\ \E t \in {"dx", "BL1"} : VariableConstructed(t)

NextVar ==
  \/ Var_insert
  \/ Var_setType
  \/ Var_setModel
  \/ Var_setSourceIndexed
  \/ Var_setSatIndexed
  \/ Var_setTypeIndexed
  \/ Var_setInitialVariance
  \/ Var_setDefaultCoefficient
  \/ Var_setDefaultForced
  \/ Var_setSource
  \/ Var_setSatellite
  \/ Var_setNowIndex
  \/ Var_setPreIndex

SpecVar == InitVar /\ [][NextVar]_vars

\* --------------------------------------------- PhaseCodeAlignment
\* The wavelengths a caller may ask for
Wavelengths == {-3, 0, 3, 4}

MaxAlignEpoch == 2

\* The satellites of an epoch handed to PhaseCodeAlignment
AlignSats == 1..2

\* alignData(): arc number and offset of a satellite not seen before
alignData == [arcNumber |-> 0, offset |-> 0]

\* A typeValueMap: `has' is the set of TypeIDs it holds, the other fields
\* their values (0 where the TypeID is not held)
tvm(h, k) ==
  [has |-> h,
   satArc |-> IF "satArc" \in h THEN k ELSE 0,
   CSL1 |-> IF "CSL1" \in h THEN k - 1 ELSE 0,
   code |-> IF "code" \in h THEN 6 * k + 2 ELSE 0,
   phase |-> IF "phase" \in h THEN 20 - 8 * k ELSE 0]

\* The TypeID whose value tells a cycle slip: the satellite arc when arcs
\* are used, else watchCSFlag (TypeID::CSL1 after construction)
watchType == IF useSatArcs THEN "satArc" ELSE "CSL1"

\* The satTypeValueMaps of an epoch: every satellite with or without the
\* watched TypeID, the code and the phase observable
Align_Inputs ==
  [AlignSats -> {tvm(h, k) : h \in SUBSET {watchType, "code", "phase"}, k \in 1..2}]

\* satTypeValueMap::removeSatID
removeSatID(data, rej) == [s \in DOMAIN data \ rej |-> data[s]]

\* The body of the loop for a satellite whose watched TypeID was found,
\* with a second arm where a missing watched TypeID ends the call
AlignOne_abort(sv, d, s) ==
  LET sv1 == IF s \in DOMAIN sv THEN sv ELSE sv @@ (s :> alignData)
      csflag == IF useSatArcs THEN sv1[s].arcNumber # d.satArc ELSE d.CSL1 > 0
      sv2 == IF useSatArcs /\ csflag
             THEN [sv1 EXCEPT ![s].arcNumber = d.satArc] ELSE sv1
      diff == (d.code - d.phase) \div phaseWavelength
      sv3 == IF csflag THEN [sv2 EXCEPT ![s].offset = diff * phaseWavelength]
             ELSE sv2
  IN IF watchType \notin d.has
     THEN [sv |-> sv1, d |-> d, rejected |-> FALSE, thrown |-> TRUE]
     ELSE IF csflag /\ ~({"code", "phase"} \subseteq d.has)
     THEN [sv |-> sv2, d |-> d, rejected |-> FALSE, thrown |-> TRUE]
     ELSE [sv |-> sv3,
           d |-> [d EXCEPT !.phase = d.phase + sv3[s].offset,
                           !.has = d.has \cup {"phase"}],
           rejected |-> FALSE, thrown |-> FALSE]

\* The body of the loop, were the offset recomputed in every epoch that
\* has code and phase
AlignOne_always(sv, d, s) ==
  LET sv1 == IF s \in DOMAIN sv THEN sv ELSE sv @@ (s :> alignData)
      csflag == IF useSatArcs THEN sv1[s].arcNumber # d.satArc ELSE d.CSL1 > 0
      sv2 == IF useSatArcs /\ csflag
             THEN [sv1 EXCEPT ![s].arcNumber = d.satArc] ELSE sv1
      diff == (d.code - d.phase) \div phaseWavelength
      sv3 == IF csflag \/ {"code", "phase"} \subseteq d.has
             THEN [sv2 EXCEPT ![s].offset = diff * phaseWavelength]
             ELSE sv2
  IN IF watchType \notin d.has
     THEN [sv |-> sv1, d |-> d, rejected |-> TRUE, thrown |-> FALSE]
     ELSE IF csflag /\ ~({"code", "phase"} \subseteq d.has)
     THEN [sv |-> sv2, d |-> d, rejected |-> FALSE, thrown |-> TRUE]
     ELSE [sv |-> sv3,
           d |-> [d EXCEPT !.phase = d.phase + sv3[s].offset,
                           !.has = d.has \cup {"phase"}],
           rejected |-> FALSE, thrown |-> FALSE]

\* The body of the loop, were the quotient of code minus phase and the
\* wavelength cut towards zero
AlignOne_trunc(sv, d, s) ==
  LET sv1 == IF s \in DOMAIN sv THEN sv ELSE sv @@ (s :> alignData)
      csflag == IF useSatArcs THEN sv1[s].arcNumber # d.satArc ELSE d.CSL1 > 0
      sv2 == IF useSatArcs /\ csflag
             THEN [sv1 EXCEPT ![s].arcNumber = d.satArc] ELSE sv1
      diff == IF d.code < d.phase
              THEN 0 - ((d.phase - d.code) \div phaseWavelength)
              ELSE (d.code - d.phase) \div phaseWavelength
      sv3 == IF csflag THEN [sv2 EXCEPT ![s].offset = diff * phaseWavelength]
             ELSE sv2
  IN IF watchType \notin d.has
     THEN [sv |-> sv1, d |-> d, rejected |-> TRUE, thrown |-> FALSE]
     ELSE IF csflag /\ ~({"code", "phase"} \subseteq d.has)
     THEN [sv |-> sv2, d |-> d, rejected |-> FALSE, thrown |-> TRUE]
     ELSE [sv |-> sv3,
           d |-> [d EXCEPT !.phase = d.phase + sv3[s].offset,
                           !.has = d.has \cup {"phase"}],
           rejected |-> FALSE, thrown |-> FALSE]

\* One pass of the loop over the satellites: the entry of m_svData is
\* created; a satellite without the watched TypeID is put into
\* satRejectedSet and skipped; a cycle slip (a new arc number, or a flag
\* above 0) recomputes the offset from code and phase, whose lookup throws
\* when either is missing; the offset is added to the phase
AlignOne(sv, d, s) ==
  LET sv1 == IF s \in DOMAIN sv THEN sv ELSE sv @@ (s :> alignData)
      csflag == IF useSatArcs THEN sv1[s].arcNumber # d.satArc ELSE d.CSL1 > 0
      sv2 == IF useSatArcs /\ csflag
             THEN [sv1 EXCEPT ![s].arcNumber = d.satArc] ELSE sv1
      diff == (d.code - d.phase) \div phaseWavelength
      sv3 == IF csflag THEN [sv2 EXCEPT ![s].offset = diff * phaseWavelength]
             ELSE sv2
  IN IF watchType \notin d.has
     THEN [sv |-> sv1, d |-> d, rejected |-> TRUE, thrown |-> FALSE]
     ELSE IF csflag /\ ~({"code", "phase"} \subseteq d.has)
     THEN [sv |-> sv2, d |-> d, rejected |-> FALSE, thrown |-> TRUE]
     ELSE [sv |-> sv3,
           d |-> [d EXCEPT !.phase = d.phase + sv3[s].offset,
                           !.has = d.has \cup {"phase"}],
           rejected |-> FALSE, thrown |-> FALSE]

RECURSIVE AlignLoop(_, _)
\* The loop over the satellites in map order; an exception leaves it
AlignLoop(seq, acc) ==
  IF seq = <<>> \/ acc.thrown THEN acc
  ELSE LET s == Head(seq)
           r == AlignOne(acc.sv, acc.data[s], s)
       IN AlignLoop(Tail(seq),
                    [sv |-> r.sv,
                     data |-> [acc.data EXCEPT ![s] = r.d],
                     rej |-> IF r.rejected THEN acc.rej \cup {s} ELSE acc.rej,
                     thrown |-> r.thrown])

\* PhaseCodeAlignment::Process(epoch, gData): the loop, then the removal of
\* the rejected satellites; an exception becomes a ProcessingException
Align_Process ==
  /\ alignEpoch < MaxAlignEpoch
  /\ \E g \in Align_Inputs :
       LET r == AlignLoop(SatOrder(DOMAIN g),
                          [sv |-> m_svData, data |-> g, rej |-> {},
                           thrown |-> FALSE])
       IN /\ satDataIn' = g
          /\ m_svData' = r.sv
          /\ satData' = IF r.thrown THEN r.data ELSE removeSatID(r.data, r.rej)
          /\ alignOutcome' = IF r.thrown THEN "ProcessingException" ELSE "ok"
  /\ alignEpoch' = alignEpoch + 1
  /\ UNCHANGED <<kalmanVars, variableVars, useSatArcs, phaseWavelength,
                 m_svDataMap, srcDataIn, srcData>>

InitAlign ==
  /\ SolverConstructed /\ solver = "PPPUC" /\ fixCoordinate = FALSE
  /\ AlignConstructed /\ useSatArcs \in BOOLEAN /\ VariableConstructed("dx")
  /\ \E w \in Wavelengths : phaseWavelength = setPhaseWavelength(w)

\* A call of PhaseCodeAlignment::setPhaseWavelength
Align_setPhaseWavelength ==
  /\ \E w \in Wavelengths : phaseWavelength' = setPhaseWavelength(w)
  /\ UNCHANGED <<kalmanVars, variableVars, useSatArcs, m_svData, satDataIn,
                 satData, alignOutcome, alignEpoch, m_svDataMap, srcDataIn,
                 srcData>>

NextAlign == Align_Process \/ Align_setPhaseWavelength

SpecAlign == InitAlign /\ [][NextAlign]_vars

\* ------------------------- PhaseCodeAlignment, data of several sources
MaxSrcEpoch == 3

\* The sources of a gnssDataMap, in SourceID order
AlignSources == 1..2

\* The satTypeValueMap of a source: one satellite, whose code differs
\* from source to source
Src_SatMaps(src) ==
  {(1 :> [tvm(h, k) EXCEPT !.code = IF "code" \in h THEN @ + 3 * src ELSE @]) :
     h \in {{watchType, "code", "phase"}, {watchType, "phase"}}, k \in 1..2}

\* The sourceDataMaps of an epoch: one source or both
Src_Inputs ==
  UNION {{g \in [S -> UNION {Src_SatMaps(src) : src \in S}] :
            \A src \in S : g[src] \in Src_SatMaps(src)} :
         S \in SUBSET AlignSources \ {{}}}

\* The body of the loop over the sources, were m_svData not emptied for
\* a source that m_svDataMap does not hold
ProcessSource_shared(acc, src) ==
  LET sv0 == IF src \in DOMAIN acc.map THEN acc.map[src] ELSE acc.sv
      r == AlignLoop(SatOrder(DOMAIN acc.data[src]),
                     [sv |-> sv0, data |-> acc.data[src], rej |-> {},
                      thrown |-> FALSE])
  IN IF r.thrown
     THEN [map |-> acc.map, sv |-> r.sv,
           data |-> [acc.data EXCEPT ![src] = r.data], thrown |-> TRUE]
     ELSE [map |-> [t \in DOMAIN acc.map \cup {src} |->
                      IF t = src THEN r.sv ELSE acc.map[t]],
           sv |-> r.sv,
           data |-> [acc.data EXCEPT ![src] = removeSatID(r.data, r.rej)],
           thrown |-> FALSE]

\* The body of the loop over the sources: m_svData is taken from
\* m_svDataMap, or emptied for a source not held there; Process(epoch,
\* gData) works on it; it is stored under the source. An exception of
\* Process leaves the loop before the store.
ProcessSource(acc, src) ==
  LET sv0 == IF src \in DOMAIN acc.map THEN acc.map[src] ELSE EmptyMap
      r == AlignLoop(SatOrder(DOMAIN acc.data[src]),
                     [sv |-> sv0, data |-> acc.data[src], rej |-> {},
                      thrown |-> FALSE])
  IN IF r.thrown
     THEN [map |-> acc.map, sv |-> r.sv,
           data |-> [acc.data EXCEPT ![src] = r.data], thrown |-> TRUE]
     ELSE [map |-> [t \in DOMAIN acc.map \cup {src} |->
                      IF t = src THEN r.sv ELSE acc.map[t]],
           sv |-> r.sv,
           data |-> [acc.data EXCEPT ![src] = removeSatID(r.data, r.rej)],
           thrown |-> FALSE]

RECURSIVE SourceLoop(_, _)
\* The loop over the sources in map order
SourceLoop(seq, acc) ==
  IF seq = <<>> \/ acc.thrown THEN acc
  ELSE SourceLoop(Tail(seq), ProcessSource(acc, Head(seq)))

\* PhaseCodeAlignment::Process(gnssDataMap), for the data of one epoch
Align_ProcessMap ==
  /\ alignEpoch < MaxSrcEpoch
  /\ \E g \in Src_Inputs :
       LET r == SourceLoop(SatOrder(DOMAIN g),
                           [map |-> m_svDataMap, sv |-> m_svData, data |-> g,
                            thrown |-> FALSE])
       IN /\ srcDataIn' = g
          /\ m_svDataMap' = r.map
          /\ m_svData' = r.sv
          /\ srcData' = r.data
          /\ alignOutcome' = IF r.thrown THEN "ProcessingException" ELSE "ok"
  /\ alignEpoch' = alignEpoch + 1
  /\ UNCHANGED <<kalmanVars, variableVars, useSatArcs, phaseWavelength,
                 satDataIn, satData>>

NextSrc == Align_ProcessMap

SpecSrc == InitAlign /\ [][NextSrc]_vars

\* ================================================================ claims
\* The unknowns in the order of the state vector: SolverPPPUC has the core
\* types in srcIndexedTypes order, then varUnknowns in set order;
\* SolverUpdNL has the unknowns of the equation system in set order.
StateUnknowns(unkSet) ==
  IF solver = "PPPUC"
  THEN [k \in 1..Cardinality(srcIndexedTypes) |->
          Variable(TypeOrder(srcIndexedTypes)[k], noSats)] \o InOrder(unkSet)
  ELSE InOrder(unkSet)

Range(seq) == {seq[k] : k \in 1..Len(seq)}

\* The satellites of a set of unknowns
SatsOf(unkSet) == {v.sat : v \in unkSet} \ {noSats}

\* The data of an epoch is well posed: enough satellites, one of them above
\* the horizon, well-conditioned numbers, positive a-priori variances, and
\* (SolverUpdNL) a resolver that fixes ambiguities.
WellPosed(g) ==
  /\ Cardinality(g.sats) >= MinSV
  /\ g.cond = "ok"
  /\ solver = "UpdNL" => g.fix
  /\ solver = "PPPUC" => ImaxAssigned(g)
  /\ \A v \in varUnknowns : getInitialVariance(v) > 0

\* The epoch being processed has its prior (preCompute has returned)
PriorBuilt == pc = "TimeUpdate"

\* C1: whenever a steady-state prior is built after some epoch has been
\* completed successfully, every unknown that was not in the posterior of
\* the last successful epoch has prior mean 0, its initial variance, and
\* zero covariance with every other unknown.
C1_NewUnknownGetsInitialPrior ==
  (PriorBuilt /\ good.ep >= 1) =>
    LET unk == StateUnknowns(varUnknowns)
        old == Range(StateUnknowns(good.unk))
    IN \A k \in 1..Len(unk) :
         unk[k] \notin old =>
           /\ xhat[k - 1] = 0
           /\ P.e[k - 1][k - 1] = getInitialVariance(unk[k])
           /\ \A l \in (1..Len(unk)) \ {k} :
                P.e[k - 1][l - 1] = 0 /\ P.e[l - 1][k - 1] = 0

\* C2: when epoch k was completed successfully and epoch k+1 has the same
\* unknowns, the prior state and covariance of epoch k+1 are, entry for
\* entry, the solution and covMatrix of epoch k.
C2_SameUnknownsRoundTrip ==
  (PriorBuilt /\ good.ep >= 1 /\ good.ep = epoch - 1 /\ good.unk = varUnknowns) =>
    /\ xhat = good.sol
    /\ P = good.cov

C2_Witness ==
  /\ PriorBuilt /\ good.ep >= 1 /\ good.ep = epoch - 1 /\ good.unk = varUnknowns
  /\ solver = "PPPUC" /\ ~fixCoordinate
  /\ P.r = numUnknowns /\ P.e[0][numVar] # 0 /\ P.e[numVar][numVar + 1] # 0

\* C3: in the prior built after a failed epoch, every unknown that was in
\* the last successfully completed epoch has that epoch's posterior mean,
\* variance, and covariances with the other unknowns kept from it.
C3_FailedEpochKeepsPosterior ==
  (PriorBuilt /\ good.ep >= 1 /\ good.ep < epoch - 1) =>
    LET unk == StateUnknowns(varUnknowns)
        gunk == StateUnknowns(good.unk)
        kept == {k \in 1..Len(unk) : unk[k] \in Range(gunk)}
    IN \A k \in kept :
         /\ xhat[k - 1] = good.sol[ColumnOf(gunk, unk[k])]
         /\ \A l \in kept :
              P.e[k - 1][l - 1] = good.cov.e[ColumnOf(gunk, unk[k])][ColumnOf(gunk, unk[l])]

C3_Witness ==
  /\ PriorBuilt /\ good.ep = 1 /\ epoch = 3
  /\ outcome.type = "ProcessingException"
  /\ varUnknowns # good.unk /\ varUnknowns \cap good.unk # {}

\* C4: no epoch with well-posed data that follows a failed epoch fails.
C4_FailedEpochNotFatal ==
  ~ /\ pc = "idle" /\ epoch >= 2
    /\ good.ep < epoch - 1
    /\ WellPosed(gData)
    /\ outcome.type # "ok"

\* C5: as long as no MeasUpdate has succeeded the prior is the static
\* first-epoch one (zero state, the first-epoch covariance); once one has
\* succeeded the prior is never the first-epoch one again.
C5_FirstEpochUntilMeasUpdateSucceeds ==
  PriorBuilt =>
    LET first == IF solver = "PPPUC"
                 THEN UC_initialErrorCovariance(Cardinality(gData.sats), numVar, fixCoordinate)
                 ELSE NL_initialErrorCovariance(InOrder(varUnknowns))
    IN IF good.ep = 0
       THEN xhat = NewVector(numUnknowns, 0) /\ P = first
       ELSE ~firstTime /\ P # first

\* C6: a MeasUpdate call that fails at one of its computation steps leaves
\* P, xhat, solution, covMatrix and postfitResiduals as they were.
C6_FailedMeasUpdateCommitsNothing ==
  [][(pc = "MeasUpdate" /\ pc' = "idle" /\ MeasUpdateRejects(measVector, hMatrix, rMatrix) = "")
       => UNCHANGED <<P, xhat, solution, covMatrix, postfitResiduals>>]_vars

C6_Witness ==
  /\ pc = "idle" /\ good.ep >= 1
  /\ outcome.msg = "MeasUpdate(): Unable to compute P matrix."
  /\ VSize(solution) > 0 /\ P # covMatrix

\* C7: SolverPPPUC::preCompute ends with SVNumException exactly when the
\* epoch has fewer than 4 satellites, and then xhat, P, solution, covMatrix,
\* stateMap, covarianceMap and firstTime are what they were before the call.
C7_TooFewSatellites ==
  [][(solver = "PPPUC" /\ pc = "idle" /\ epoch' = epoch + 1)
       => /\ (pc' = "idle" /\ outcome'.type = "SVNumException")
               <=> Cardinality(gData'.sats) < 4
          /\ Cardinality(gData'.sats) < 4
               => UNCHANGED <<xhat, P, solution, covMatrix, stateMap, covarianceMap, firstTime>>]_vars

C7_Witness ==
  /\ solver = "PPPUC" /\ pc = "idle" /\ outcome.type = "SVNumException"
  /\ Cardinality(gData.sats) = 3
  /\ good.ep >= 1 /\ VSize(xhat) > 0 /\ DOMAIN covarianceMap # {}

C10_RowBlocks ==
  (solver = "PPPUC" /\ PriorBuilt /\ Cardinality(gData.sats) >= 4) =>
    LET n == Cardinality(gData.sats)
        Rows(ws, block) == {ws[k][1] : k \in {l \in DOMAIN ws : ws[l][Len(ws[l])] = block}}
        Blocks(ws) == /\ Rows(ws, "meas") = 0..(4 * n - 1)
                      /\ Rows(ws, "iono") = (4 * n)..(5 * n - 2)
                      /\ Rows(ws, "trop") = {5 * n - 1}
    IN /\ VSize(measVector) = 5 * n
       /\ hMatrix.r = 5 * n
       /\ rMatrix.r = 5 * n /\ rMatrix.c = 5 * n
       /\ Blocks(measVectorWrites(gData, imax))
       /\ Blocks(hMatrixWrites(gData, imax, numVar, srcIndexedTypes))
       /\ Blocks(rMatrixWrites(gData, imax))

\* The index that an unknown has in the state vector of the epoch
ColumnIn(v) ==
  LET unk == StateUnknowns(varUnknowns)
  IN (CHOOSE k \in 1..Len(unk) : unk[k] = v) - 1

\* An epoch of SolverPPPUC whose system is assembled
Assembled == solver = "PPPUC" /\ PriorBuilt /\ Cardinality(gData.sats) >= MinSV

\* C11: the reference satellite is a satellite with the maximum elevation
\* of the epoch, and every other satellite i has exactly one row whose
\* design coefficients are +1 in i's ionosphere column, -1 in the reference
\* satellite's ionosphere column and 0 elsewhere; that row holds the prefit
\* iono(i) - iono(reference) and a weight on the diagonal of rMatrix.
C11_IonoConstraintRows ==
  Assembled =>
    LET n == Cardinality(gData.sats)
        so == SatOrder(gData.sats)
        iono == getVectorOfTypeID(gData, "ionoL1")
        col(s) == ColumnIn(Variable("ionoL1", s))
        rowOf(i, ref) ==
          {r \in 0..(hMatrix.r - 1) :
             \A c \in 0..(hMatrix.c - 1) :
               hMatrix.e[r][c] = (IF c = col(so[i + 1]) THEN 1
                                  ELSE IF c = col(so[ref + 1]) THEN -1 ELSE 0)}
    IN \E ref \in 0..(n - 1) :
         /\ \A s \in gData.sats : elevation(gData, s) <= elevation(gData, so[ref + 1])
         /\ \A i \in (0..(n - 1)) \ {ref} :
              /\ Cardinality(rowOf(i, ref)) = 1
              /\ \A r \in rowOf(i, ref) :
                   /\ measVector[r] = iono[i] - iono[ref]
                   /\ rMatrix.e[r][r] > 0

\* C12: every assembled epoch has exactly one tropospheric constraint row:
\* the last row; its prefit is the a-priori wet delay, its only non-zero
\* design coefficient is 1.0 in the wetMap column, its weight is
\* 1/initialTropVar, with fixed coordinates or not; no other row has its
\* only coefficient in the wetMap column.
C12_TropoConstraintRow ==
  Assembled =>
    LET n == Cardinality(gData.sats)
        wet == ColumnIn(Variable("wetMap", noSats))
        onlyWet(r) == \A c \in 0..(hMatrix.c - 1) :
                        hMatrix.e[r][c] = (IF c = wet THEN 1 ELSE 0)
    IN /\ {r \in 0..(hMatrix.r - 1) : onlyWet(r)} = {5 * n - 1}
       /\ measVector[5 * n - 1] = zwdOf(gData)
       /\ rMatrix.e[5 * n - 1][5 * n - 1] = 1 \div initialTropVar

\* C20: the assembled weight matrix is diagonal with its 5n diagonal
\* entries set: code rows the base code weight, phase rows the base phase
\* weight, each times the satellite's weight factor only when weights are
\* supplied for every satellite; every constraint row exactly 1 / its
\* constraint variance.
C20_WeightMatrix ==
  Assembled =>
    LET n == Cardinality(gData.sats)
        wVec == getVectorOfTypeID(gData, "weight")
        w(i) == IF gData.hasWeights THEN wVec[i] ELSE 1
        diag(r) == IF r < 2 * n THEN WeightCode * w(r % n)
                   ELSE IF r < 4 * n THEN WeightPhase * w(r % n)
                   ELSE IF r < 5 * n - 1 THEN 1 \div initialIonoVar
                   ELSE 1 \div initialTropVar
    IN /\ rMatrix.r = 5 * n /\ rMatrix.c = 5 * n
       /\ \A r \in 0..(5 * n - 1) : \A c \in 0..(5 * n - 1) :
            rMatrix.e[r][c] = (IF r = c THEN diag(r) ELSE 0)

\* C13: when the resolver fixes k >= 1 ambiguities and the assembled system
\* has m rows, AmbiguityConstr yields m + k rows; the r-th appended row (the
\* fixed Variables in Variable order) has the fixed value as prefit, 1 in
\* the column of the fixed Variable in the unknown set and 0 elsewhere, and
\* weight 1.0E+14 on the diagonal with zero weight off the diagonal.
C13_FixedAmbiguityRows ==
  [][(pc = "AmbiguityConstr" /\ DOMAIN getAmbFixedMap(gData) # {}) =>
       LET m == VSize(measVector)
           fixed == getAmbFixedMap(gData)
           fseq == InOrder(DOMAIN fixed)
           k == Len(fseq)
           unk == InOrder(varUnknowns)
       IN /\ pc' = "MeasUpdate"
          /\ VSize(measVector') = m + k
          /\ hMatrix'.r = m + k /\ hMatrix'.c = Len(unk)
          /\ rMatrix'.r = m + k /\ rMatrix'.c = m + k
          /\ \A r \in 1..k :
               LET row == m + r - 1
               IN /\ measVector'[row] = fixed[fseq[r]]
                  /\ \A j \in 0..(Len(unk) - 1) :
                       hMatrix'.e[row][j] = (IF unk[j + 1] = fseq[r] THEN 1 ELSE 0)
                  /\ \A j \in 0..(m + k - 1) :
                       /\ rMatrix'.e[row][j] = (IF j = row THEN WeightFix ELSE 0)
                       /\ rMatrix'.e[j][row] = (IF j = row THEN WeightFix ELSE 0)]_vars

C13_Witness ==
  /\ solver = "UpdNL" /\ pc = "MeasUpdate"
  /\ Cardinality(DOMAIN ambFixedMap) >= 2
  /\ VSize(measVector) = 2 * Cardinality(gData.sats) + Cardinality(DOMAIN ambFixedMap)

\* C14: AmbiguityConstr leaves the m assembled rows where they are: row
\* i < m of measVector, hMatrix and rMatrix is unchanged (the new columns of
\* rMatrix are 0 in it), the column count of hMatrix is unchanged, xhatminus
\* and Pminus are not modified; so after MeasUpdate postfit residual i < m
\* is the residual of assembled equation i.
C14_AssembledRowsKept ==
  /\ [][(pc = "AmbiguityConstr" /\ pc' = "MeasUpdate") =>
          LET m == VSize(measVector)
          IN /\ VSize(measVector') >= m
             /\ hMatrix'.c = hMatrix.c
             /\ UNCHANGED <<xhatminus, Pminus>>
             /\ \A i \in 0..(m - 1) :
                  /\ measVector'[i] = measVector[i]
                  /\ hMatrix'.e[i] = hMatrix.e[i]
                  /\ \A j \in 0..(rMatrix'.c - 1) :
                       rMatrix'.e[i][j] = (IF j < m THEN rMatrix.e[i][j] ELSE 0)]_vars
  /\ [](solver = "UpdNL" /\ pc = "postCompute" =>
          LET prefit == NL_getPrefitsVector(gData)
              H == NL_getGeometryMatrix(gData)
          IN \A i \in 0..(VSize(prefit) - 1) :
               postfitResiduals[i] = prefit[i] - MatVec(H, solution)[i])

C14_Witness ==
  /\ solver = "UpdNL" /\ pc = "postCompute"
  /\ DOMAIN ambFixedMap # {}
  /\ VSize(postfitResiduals) > VSize(NL_getPrefitsVector(gData))

\* C15: when the resolver returns an empty AmbFixedMap, AmbiguityConstr
\* fails with an error that reaches the caller of Process (Process ends with
\* a ProcessingException), and measVector, hMatrix and rMatrix keep the
\* size and content of the assembly.
C15_EmptyFixMapError ==
  [][(pc = "AmbiguityConstr" /\ DOMAIN getAmbFixedMap(gData) = {}) =>
       /\ pc' = "idle" /\ outcome'.type = "ProcessingException"
       /\ UNCHANGED <<measVector, hMatrix, rMatrix>>
       /\ measVector = NL_getPrefitsVector(gData)
       /\ hMatrix = NL_getGeometryMatrix(gData)
       /\ rMatrix = NL_getWeightsMatrix(gData)]_vars

\* C17: the steps of an epoch run in the fixed order preCompute (unknowns,
\* assembly, phi/Q, prior), TimeUpdate, (SolverUpdNL) AmbiguityConstr,
\* MeasUpdate, postCompute, each once and the next only after the one
\* before it has completed; and stateMap / covarianceMap are written only
\* by postCompute, after the successful MeasUpdate of the same epoch.
C17_StepOrder ==
  [][/\ pc' # pc =>
          \/ pc' \in {"idle", "terminated"} /\ pc # "idle"
          \/ pc = "idle" /\ pc' = "TimeUpdate" /\ epoch' = epoch + 1
          \/ pc = "TimeUpdate" /\ pc' = (IF solver = "UpdNL" THEN "AmbiguityConstr"
                                          ELSE "MeasUpdate")
          \/ pc = "AmbiguityConstr" /\ pc' = "MeasUpdate"
          \/ pc = "MeasUpdate" /\ pc' = "postCompute" /\ valid'
     /\ pc # "idle" => epoch' = epoch
     /\ <<stateMap, covarianceMap>>' # <<stateMap, covarianceMap>> =>
          pc = "postCompute" /\ valid]_vars

\* C18: every failure inside preCompute, Compute or postCompute reaches the
\* caller of Process as an error; the error carries the name of the
\* component and the sequence number of the epoch; an epoch in which a step
\* failed never ends normally; the too-few-satellites error, and only it,
\* keeps the type SVNumException.
C18_FailuresReachCaller ==
  /\ pc # "terminated"
  /\ (pc = "idle" /\ epoch >= 1) =>
       /\ outcome.type \in {"ok", "ProcessingException", "SVNumException"}
       /\ outcome.type = "ok" => good.ep = epoch /\ valid
       /\ outcome.type = "SVNumException" <=>
            (solver = "PPPUC" /\ TooFewSV(Cardinality(gData.sats)))
       /\ outcome.type = "ProcessingException" =>
            outcome.ctx = [name |-> getClassName, index |-> epoch]

\* The satellites of the epoch that lack the watched TypeID
AlignMissing == {s \in DOMAIN satDataIn : watchType \notin satDataIn[s].has}

\* A satellite whose slip cannot be repaired: code or phase is missing
AlignUnrepairable(s) ==
  /\ watchType \in satDataIn[s].has
  /\ ~({"code", "phase"} \subseteq satDataIn[s].has)

\* C19: in PhaseCodeAlignment::Process a satellite without its satellite
\* arc (or, when arcs are not used, without its cycle-slip flag) keeps its
\* phase as it was and is removed from the epoch's data on return, every
\* other satellite is kept with its phase moved by its offset, and the call
\* ends with an error only when a satellite that has the arc or flag lacks
\* the code or the phase of a slip, never for the missing arc or flag.
C19_MissingFieldDropsSatellite ==
  /\ alignOutcome = "ok" =>
       /\ DOMAIN satData = DOMAIN satDataIn \ AlignMissing
       /\ \A s \in DOMAIN satData :
            /\ "phase" \in satData[s].has
            /\ satData[s].phase = satDataIn[s].phase + m_svData[s].offset
  /\ alignOutcome = "ProcessingException" =>
       /\ \E s \in DOMAIN satDataIn \ AlignMissing : AlignUnrepairable(s)
       /\ \A s \in AlignMissing : satData[s] = satDataIn[s]
  /\ alignOutcome \in {"none", "ok", "ProcessingException"}

\* An epoch that returned with one satellite dropped for its missing arc or
\* flag and another one kept with a phase moved by a non-zero offset
C19_Witness ==
  /\ alignOutcome = "ok"
  /\ AlignMissing # {}
  /\ \E s \in DOMAIN satData :
       /\ m_svData[s].offset # 0
       /\ satData[s].phase = satDataIn[s].phase + m_svData[s].offset
       /\ satData[s].phase # satDataIn[s].phase

\* The arguments of TimeUpdate and the stored state do not fit together
KF_TimeInconsistent ==
  \/ ~isSquare(KF_phiMatrix) \/ ~isSquare(KF_processNoiseCovariance)
  \/ KF_phiMatrix.r # numUnknowns \/ KF_processNoiseCovariance.r # numUnknowns
  \/ VSize(xhat) # numUnknowns \/ P.r # numUnknowns \/ P.c # numUnknowns

\* The arguments of MeasUpdate and the predicted state do not fit together
KF_MeasInconsistent ==
  \/ ~isSquare(KF_weightMatrix)
  \/ KF_weightMatrix.r # VSize(KF_prefitResiduals)
  \/ KF_designMatrix.r # VSize(KF_prefitResiduals)
  \/ KF_designMatrix.c # VSize(xhatminus)
  \/ Pminus.r # VSize(xhatminus) \/ Pminus.c # VSize(xhatminus)

\* C16: a call of TimeUpdate or MeasUpdate whose arguments and stored state
\* do not fit together in shape (a transition, process-noise or weight
\* matrix that is not square or not of the size of the unknowns, row counts
\* of prefit, design and weight that differ, design columns or predicted
\* covariance that differ from the predicted state) ends with an error and
\* leaves xhatminus, Pminus, xhat, P, solution and covMatrix as they were.
C16_ShapesRejectedFirst ==
  [][(\/ pc = "TimeUpdate" /\ KF_TimeInconsistent
      \/ pc \in {"AmbiguityConstr", "MeasUpdate"} /\ KF_MeasInconsistent)
     => /\ outcome'.type = "ProcessingException"
        /\ UNCHANGED <<xhatminus, Pminus, xhat, P, solution, covMatrix>>]_vars

\* C21: once SolverPPPUC::preCompute has returned, phiMatrix and qMatrix are
\* numUnknowns x numUnknowns, every off-diagonal entry is zero, and the
\* diagonal entry of each unknown is the coefficient, and the noise, of the
\* stochastic model of that unknown's own type.
C21_PhiQDiagonal ==
  (solver = "PPPUC" /\ pc \in {"TimeUpdate", "MeasUpdate", "postCompute"}) =>
    LET unk == StateUnknowns(varUnknowns)
    IN /\ Len(unk) = numUnknowns
       /\ phiMatrix.r = numUnknowns /\ phiMatrix.c = numUnknowns
       /\ qMatrix.r = numUnknowns /\ qMatrix.c = numUnknowns
       /\ \A i, j \in 0..(numUnknowns - 1) :
            /\ phiMatrix.e[i][j] = (IF i = j THEN getPhi(unk[i + 1].type) ELSE 0)
            /\ qMatrix.e[i][j] = (IF i = j THEN getQ(unk[i + 1].type) ELSE 0)

\* An epoch of all satellites with unknown coordinates, its prior built:
\* clock, troposphere and ionosphere have their own entries
C21_Witness ==
  /\ solver = "PPPUC" /\ ~fixCoordinate /\ pc = "TimeUpdate"
  /\ Cardinality(gData.sats) = MaxSat /\ numUnknowns = numVar + 3 * MaxSat
  /\ phiMatrix.e[4][4] = getPhi("cdt") /\ qMatrix.e[0][0] = getQ("wetMap")
  /\ qMatrix.e[numVar][numVar] = getQ("ionoL1") /\ qMatrix.e[0][1] = 0

\* The matrix M of one or two rows is symmetric positive semi-definite
IsSymPSD(M) ==
  /\ IsSymmetric(M)
  /\ \A i \in 0..(M.r - 1) : M.e[i][i] >= 0
  /\ M.r = 2 => M.e[0][0] * M.e[1][1] >= M.e[0][1] * M.e[1][0]

AllZero(M) == \A i \in 0..(M.r - 1) : \A j \in 0..(M.c - 1) : M.e[i][j] = 0

\* C22: a MeasUpdate that returns with a design matrix of zeros has a
\* posterior state and covariance equal to the predicted state and
\* covariance, and postfit residuals equal to the prefit residuals.
C22_ZeroDesignKeepsPrior ==
  [][(pc = "MeasUpdate" /\ AllZero(hMatrix) /\ pc' = "postCompute")
     => /\ xhat' = xhatminus /\ P' = Pminus
        /\ solution' = xhatminus /\ covMatrix' = Pminus
        /\ postfitResiduals' = measVector]_vars

\* C23: for a square transition matrix and symmetric positive semi-definite
\* P and Q of the size of the unknowns, TimeUpdate leaves
\* xhatminus = phi * xhat and Pminus = phi * P * transpose(phi) + Q, and
\* Pminus is symmetric positive semi-definite.
C23_PredictedCovariancePSD ==
  [][(pc = "TimeUpdate" /\ isSquare(phiMatrix) /\ phiMatrix.r = numUnknowns
      /\ IsSymPSD(P) /\ IsSymPSD(qMatrix)
      /\ P.r = numUnknowns /\ qMatrix.r = numUnknowns)
     => /\ pc' = "MeasUpdate"
        /\ xhatminus' = fxMatVec(phiMatrix, xhat)
        /\ Pminus' = MatAdd(fxMatMul(fxMatMul(phiMatrix, P), transpose(phiMatrix)), qMatrix)
        /\ IsSymPSD(Pminus')]_vars

\* Type, source, satellite and the two index flags of a and b match
SameIdentity(a, b) ==
  /\ a.varType = b.varType /\ a.varSource = b.varSource /\ a.varSat = b.varSat
  /\ a.isSourceIndexed = b.isSourceIndexed /\ a.isSatIndexed = b.isSatIndexed

\* Every Variable a and b can be compared with: any type, source,
\* satellite and flags
ThirdVariables ==
  LET ids == [varType : {"dx", "BL1"}, varSource : {allSources, 1}, varSat : {noSats, 1},
              isSourceIndexed : BOOLEAN, isSatIndexed : BOOLEAN]
  IN {[NewVariable(i.varType) EXCEPT !.varSource = i.varSource, !.varSat = i.varSat,
         !.isSourceIndexed = i.isSourceIndexed, !.isSatIndexed = i.isSatIndexed] : i \in ids}

\* a and b order identically against every third Variable
SameOrder(a, b) ==
  \A t \in ThirdVariables : /\ VarLt(a, t) <=> VarLt(b, t)
                            /\ VarLt(t, a) <=> VarLt(t, b)

\* The setters of the attributes that are no part of the identity
AttributeSetters ==
  {"setModel", "setInitialVariance", "setDefaultCoefficient", "setDefaultForced",
   "setNowIndex", "setPreIndex"}

IonoRowsWritten(g, im) ==
  LET ws == rMatrixWrites(g, im)
  IN {ws[k][1] : k \in {l \in DOMAIN ws : ws[l][4] = "iono"}}

\* C25: in every epoch of SolverPPPUC with at least 4 satellites, also one
\* in which no satellite has an elevation above 0, the index of the
\* reference satellite has been assigned before it is read, lies in
\* 0..n-1, and exactly n-1 ionospheric constraint rows are written.
C25_ReferenceIndexDefined ==
  (solver = "PPPUC" /\ epoch >= 1 /\ Cardinality(gData.sats) >= MinSV) =>
    LET n == Cardinality(gData.sats)
    IN /\ ImaxAssigned(gData)
       /\ imax \in 0..(n - 1)
       /\ Cardinality(IonoRowsWritten(gData, imax)) = n - 1

\* The static a-priori variance of the unknown at index k of the state of
\* SolverPPPUC: its type decides, and the place of the clock is index 1
\* with fixed coordinates and index 4 without
FirstVariance(k, n, fixPos) ==
  LET clock == IF fixPos THEN 1 ELSE 4
  IN IF k < clock THEN VarTropo1st
     ELSE IF k = clock THEN VarClock1st
     ELSE IF k < clock + 1 + n THEN VarIono1st
     ELSE VarAmb1st

ProcessLeft == pc = "idle"

\* C28: whenever Process has returned or thrown, the keys of stateMap and
\* of covarianceMap are the unknowns (SolverPPPUC: the satellite-indexed
\* unknowns) of the most recent successfully completed epoch, none before
\* the first; so an epoch that fails adds no key and removes none.
C28_CarriedKeys ==
  ProcessLeft => /\ DOMAIN stateMap = good.unk
                 /\ DOMAIN covarianceMap = good.unk

\* The unknowns of the epoch being processed that come back after a gap:
\* in the posterior of some successful epoch, not in that of the last one
BackAfterGap == varUnknowns \cap (good.past \ good.unk)

\* C29: a satellite that was absent from a successfully processed epoch
\* and is present again in a later epoch is treated as a new satellite
\* there: each of its unknowns has prior mean 0, its initial variance and
\* zero covariance with every other unknown.
C29_BackAfterGapIsNew ==
  (PriorBuilt /\ good.ep >= 1) =>
    LET unk == StateUnknowns(varUnknowns)
    IN \A k \in 1..Len(unk) :
         unk[k] \in BackAfterGap =>
           /\ xhat[k - 1] = 0
           /\ P.e[k - 1][k - 1] = getInitialVariance(unk[k])
           /\ \A l \in (1..Len(unk)) \ {k} :
                P.e[k - 1][l - 1] = 0 /\ P.e[l - 1][k - 1] = 0

\* C30: in every epoch of SolverUpdNL the resolver is given the prediction
\* of this epoch's TimeUpdate (xhatminus, Pminus) as maps keyed by exactly
\* the current unknowns, with every diagonal entry and every unordered
\* pair of unknowns once; and the AmbFixedMap behind the constraint rows
\* and the fixing statistics of the epoch is the one the resolver gave in
\* this epoch.
C30_ResolverSeesPrediction ==
  [][/\ (solver = "UpdNL" /\ pc = "AmbiguityConstr" /\ pc' # pc) =>
          LET unk == InOrder(varUnknowns)
              col(v) == ColumnOf(unk, v)
          IN /\ xhatminus = MatVec(phiMatrix, xhat)
             /\ Pminus = MatAdd(MatMul(MatMul(phiMatrix, P), transpose(phiMatrix)), qMatrix)
             /\ DOMAIN stateMapminus' = varUnknowns
             /\ \A v \in varUnknowns : stateMapminus'[v] = xhatminus[col(v)]
             /\ DOMAIN covMapminus' = varUnknowns
             /\ \A v \in varUnknowns :
                  /\ DOMAIN covMapminus'[v] \subseteq varUnknowns
                  /\ v \in DOMAIN covMapminus'[v]
                  /\ \A w \in DOMAIN covMapminus'[v] :
                       covMapminus'[v][w] = Pminus.e[col(v)][col(w)]
                  /\ \A w \in varUnknowns \ {v} :
                       (w \in DOMAIN covMapminus'[v]) # (v \in DOMAIN covMapminus'[w])
             /\ ambFixedMap' = getAmbFixedMap(gData)
             /\ pc' = "MeasUpdate" =>
                  LET fseq == InOrder(DOMAIN ambFixedMap')
                      m == VSize(measVector)
                  IN /\ VSize(measVector') = m + Len(fseq)
                     /\ \A i \in 1..Len(fseq) :
                          /\ measVector'[m + i - 1] = ambFixedMap'[fseq[i]]
                          /\ hMatrix'.e[m + i - 1][col(fseq[i])] = 1
     /\ (solver = "UpdNL" /\ pc \in {"MeasUpdate", "postCompute"} /\ pc' # pc) =>
          /\ ambFixedMap = getAmbFixedMap(gData)
          /\ DOMAIN ambFixedMap \subseteq varUnknowns
     /\ (solver = "UpdNL" /\ pc = "postCompute" /\ pc' = "idle") =>
          \A s \in gData.sats :
            fixingDataMap'[s].fixedAmbNumb =
              Cardinality({v \in DOMAIN getAmbFixedMap(gData) : v.sat = s})]_vars

\* A later epoch of SolverUpdNL about to run MeasUpdate: the resolver has
\* seen a prediction that is not all zeros and has fixed ambiguities
C30_Witness ==
  /\ solver = "UpdNL" /\ pc = "MeasUpdate" /\ epoch >= 2 /\ good.ep >= 1
  /\ DOMAIN stateMapminus = varUnknowns /\ DOMAIN covMapminus = varUnknowns
  /\ \E v \in varUnknowns : stateMapminus[v] # 0
  /\ \E v, w \in varUnknowns : v # w /\ w \in DOMAIN covMapminus[v] /\ covMapminus[v][w] # 0
  /\ DOMAIN ambFixedMap # {}
  /\ gData.sats # SatsOf(good.unk)

\* The coefficient the design matrix is to hold in the row of observable b
\* (0: P1, 1: P2, 2: L1, 3: L2) of the i-th satellite, in the
\* satellite-indexed column c (counted from the first such column)
MeasCoefficient(b, i, c, n) ==
  IF c = i THEN (IF b = 0 THEN 1 ELSE IF b = 1 THEN CoefIonoF2
                 ELSE IF b = 2 THEN -1 ELSE -CoefIonoF2)
  ELSE IF c = n + i /\ b = 2 THEN CoefBL1
  ELSE IF c = 2 * n + i /\ b = 3 THEN CoefBL2
  ELSE 0

\* C31: in the design matrix of SolverPPPUC the rows i, i+n, i+2n, i+3n of
\* the i-th satellite hold the supplied core partials of that satellite in
\* the core columns, and of the satellite-indexed columns only the
\* satellite's own are non-zero: its ionosphere column in all four rows,
\* its BL1 column in the L1 row only, its BL2 column in the L2 row only.
C31_MeasurementRows ==
  Assembled =>
    LET n == Cardinality(gData.sats)
        dMatrix == getMatrixOfTypes(gData, srcIndexedTypes)
    IN /\ hMatrix.c = numVar + 3 * n /\ hMatrix.r >= 4 * n
       /\ \A i \in 0..(n - 1) : \A b \in 0..3 :
            /\ \A j \in 0..(numVar - 1) : hMatrix.e[i + b * n][j] = dMatrix.e[i][j]
            /\ \A c \in 0..(3 * n - 1) :
                 hMatrix.e[i + b * n][numVar + c] = MeasCoefficient(b, i, c, n)

\* A design matrix of five satellites with free coordinates: the last
\* satellite's L1 and L2 rows hold its own ambiguity coefficients
C31_Witness ==
  /\ Assembled /\ ~fixCoordinate /\ Cardinality(gData.sats) = MaxSat
  /\ hMatrix.e[3 * MaxSat - 1][numVar + 2 * MaxSat - 1] = CoefBL1
  /\ hMatrix.e[4 * MaxSat - 1][numVar + 3 * MaxSat - 1] = CoefBL2
  /\ hMatrix.e[MaxSat][numVar] = CoefIonoF2

\* C32: between Process calls the valid flag is true exactly when the most
\* recent call completed its MeasUpdate (and returned); after an epoch that
\* failed at any step it is false.
C32_ValidIsLastEpoch ==
  (ProcessLeft /\ epoch >= 1) => (valid <=> outcome.type = "ok")

\* The first-epoch prior of SolverPPPUC has just been built
FirstPriorBuilt == solver = "PPPUC" /\ PriorBuilt /\ good.ep = 0 /\ epoch = 1

\* C33: after any sequence of construction, setNEU and setFixCoordinate
\* calls the number of core unknowns of a SolverPPPUC agrees with the
\* fixCoordinate flag (2 when fixed, 5 otherwise), so that preCompute gives
\* every core index a transition entry and a first-epoch variance.
C33_CoreCountAgreesWithFlag ==
  /\ solver = "PPPUC" =>
       Cardinality(srcIndexedTypes) = (IF fixCoordinate THEN 2 ELSE 5)
  /\ FirstPriorBuilt =>
       /\ numVar = (IF fixCoordinate THEN 2 ELSE 5)
       /\ \A i \in 0..(numVar - 1) :
            /\ phiMatrix.e[i][i] = getPhi(TypeOrder(srcIndexedTypes)[i + 1])
            /\ P.e[i][i] = FirstVariance(i, Cardinality(gData.sats), fixCoordinate)

\* C34: for every entry of the map the resolver returns, the column search
\* of AmbiguityConstr ends with a column below the number of unknowns, also
\* when the entry is no unknown of the epoch: AmbiguityConstr completes
\* and every appended row has its coefficient 1 in such a column.
C34_ColumnSearchInRange ==
  [][(solver = "UpdNL" /\ pc = "AmbiguityConstr" /\ pc' # pc
      /\ DOMAIN ambFixedMap' # {}) =>
       LET m == VSize(measVector)
           k == Cardinality(DOMAIN ambFixedMap')
       IN /\ pc' = "MeasUpdate"
          /\ hMatrix'.r = m + k
          /\ \A i \in 0..(k - 1) :
               \E j \in 0..(numUnknowns - 1) : hMatrix'.e[m + i][j] = 1]_vars

\* The a-priori variance a satellite-indexed unknown of SolverPPPUC starts
\* with in a first epoch (lines 653-663)
FirstEpochVariance(v) == IF v.type = "ionoL1" THEN VarIono1st ELSE VarAmb1st

\* C35: in SolverPPPUC the ionosphere and ambiguity unknowns of a satellite
\* that rises in a later epoch start with the a-priori variance they would
\* have started with in a first epoch.
C35_SameStartVariance ==
  (solver = "PPPUC" /\ PriorBuilt /\ good.ep >= 1) =>
    LET unk == StateUnknowns(varUnknowns)
    IN \A k \in 1..Len(unk) :
         (unk[k] \in varUnknowns /\ unk[k] \notin (good.unk \cup good.past)) =>
           P.e[k - 1][k - 1] = FirstEpochVariance(unk[k])

\* What PhaseCodeAlignment holds for satellite s before the call
AlignStored(s) == IF s \in DOMAIN m_svData THEN m_svData[s] ELSE alignData

\* The data d of a satellite tell a cycle slip against the stored data old
AlignSlip(old, d) ==
  /\ watchType \in d.has
  /\ IF useSatArcs THEN old.arcNumber # d.satArc ELSE d.CSL1 > 0

\* C36: a call of PhaseCodeAlignment::Process changes the stored offset of
\* a satellite only when the satellite's arc number differs from the stored
\* one (or, without arcs, its cycle-slip flag is above 0); for every other
\* satellite the stored offset and arc number stay as they were and, when
\* the call returns, that offset has been added to its phase; no other
\* observable of a satellite is changed.
C36_OffsetOnlyOnSlip ==
  [][alignEpoch' # alignEpoch =>
       \A s \in DOMAIN satDataIn' :
         LET old == AlignStored(s)
             d == satDataIn'[s]
         IN /\ s \in DOMAIN m_svData' =>
                 /\ m_svData'[s].offset # old.offset => AlignSlip(old, d)
                 /\ m_svData'[s].arcNumber # old.arcNumber => AlignSlip(old, d)
            /\ (alignOutcome' = "ok" /\ watchType \in d.has) =>
                 /\ s \in DOMAIN satData'
                 /\ ~AlignSlip(old, d) =>
                      /\ m_svData'[s] = old
                      /\ satData'[s].phase = d.phase + old.offset
            /\ s \in DOMAIN satData' =>
                 /\ satData'[s].code = d.code
                 /\ satData'[s].satArc = d.satArc
                 /\ satData'[s].CSL1 = d.CSL1
                 /\ satData'[s].has \ {"phase"} = d.has \ {"phase"}]_vars

\* A second epoch without a slip for a satellite whose stored offset is not
\* zero: the offset is kept and added to the phase
C36_Witness ==
  /\ alignEpoch = 2 /\ alignOutcome = "ok"
  /\ \E s \in DOMAIN satData :
       /\ m_svData[s].offset # 0
       /\ {"code", "phase"} \subseteq satDataIn[s].has
       /\ m_svData[s].offset #
            ((satDataIn[s].code - satDataIn[s].phase) \div phaseWavelength) * phaseWavelength
       /\ satData[s].phase = satDataIn[s].phase + m_svData[s].offset

\* What m_svDataMap holds for a source before the call
SourceStored(src) ==
  IF src \in DOMAIN m_svDataMap THEN m_svDataMap[src] ELSE EmptyMap

\* What an alignment that sees the data of one source only makes of the
\* satTypeValueMap g, when it holds sv
AlignAlone(sv, g) ==
  AlignLoop(SatOrder(DOMAIN g),
            [sv |-> sv, data |-> g, rej |-> {}, thrown |-> FALSE])

\* C37: a call of Process(gnssDataMap) leaves the stored data of every
\* source that is not in the call as they were, and for a source in the
\* call the stored and the aligned data are those the alignment makes of
\* that source's stored data (empty for a source seen for the first time)
\* and that source's satellites alone; a source reached only after an
\* exception keeps its stored data.
C37_SourcesApart ==
  [][alignEpoch' # alignEpoch =>
       \A src \in AlignSources :
         LET alone == AlignAlone(SourceStored(src), srcDataIn'[src])
             kept == /\ src \in DOMAIN m_svDataMap' <=> src \in DOMAIN m_svDataMap
                     /\ src \in DOMAIN m_svDataMap =>
                          m_svDataMap'[src] = m_svDataMap[src]
         IN IF src \notin DOMAIN srcDataIn' THEN kept
            ELSE \/ /\ ~alone.thrown
                    /\ src \in DOMAIN m_svDataMap'
                    /\ m_svDataMap'[src] = alone.sv
                    /\ srcData'[src] = removeSatID(alone.data, alone.rej)
                 \/ /\ alignOutcome' = "ProcessingException"
                    /\ kept]_vars

\* Two sources in one call, the second seen for the first time, the first
\* with stored data: each has its own offset for the same satellite
C37_Witness ==
  /\ alignEpoch = 2 /\ alignOutcome = "ok"
  /\ DOMAIN srcDataIn = AlignSources /\ DOMAIN m_svDataMap = AlignSources
  /\ srcDataIn[1][1].satArc = srcDataIn[2][1].satArc
  /\ srcDataIn[1][1].CSL1 = srcDataIn[2][1].CSL1
  /\ m_svDataMap[1][1].offset # 0 /\ m_svDataMap[2][1].offset # 0
  /\ m_svDataMap[1][1].offset # m_svDataMap[2][1].offset
  /\ srcData[2][1].phase = srcDataIn[2][1].phase + m_svDataMap[2][1].offset

\* The whole multiples of the wavelength w that the offsets can take
WavelengthMultiples(w) == {k * w : k \in -20..20}

====
